---- MODULE Spec2Model ----
(***************************************************************************)
(* Feature transformation contract of the student-performance pipeline:    *)
(* the training pipeline (FeatureBuilder, src/src/features/                *)
(* build_features.py), the inference replay                                *)
(* (FeatureInferencePipelineAdjusted, src/src/features/                    *)
(* calculate_features.py) and the serving path (ModelPredictor,            *)
(* src/api.py).                                                            *)
(*                                                                         *)
(* A data frame is a record [cols, rows]: cols is the ordered sequence of  *)
(* column names, rows a sequence of functions from column name to cell.    *)
(* A cell is a string, a number or NaN (pandas' missing value).            *)
(***************************************************************************)
EXTENDS Integers, Sequences, FiniteSets, TLC

VARIABLES
    pc,         \* position of the FeatureBuilder run
    flags,      \* arguments of run_pipeline
    builder,    \* the FeatureBuilder object
    disk,       \* persisted files: features table, encoder, PCA model
    pipeline,   \* the FeatureInferencePipelineAdjusted object
    inf,        \* last call of FeatureInferencePipelineAdjusted.transform
    predictor,  \* the ModelPredictor object of the serving process
    srv,        \* last call of ModelPredictor.preprocess_input
    store,      \* the MLflow tracking store and model registry
    trainer,    \* the ModelTrainer object and the position of its run
    resp,       \* last call of ModelPredictor.predict
    app,        \* the FastAPI application: startup and last /health answer
    main,       \* run_training.main: its position and what its steps did
    fsys,       \* the files of the training pipeline, each with the run that wrote it
    call        \* last direct call of a method on its own

vars == <<pc, flags, builder, disk, pipeline, inf, predictor, srv, store, trainer, resp,
          app, main, fsys, call>>

(***************************************************************************)
(* Bounds of the model.                                                    *)
(***************************************************************************)
\* number of category levels every nominal column shows in the training table
NumLevels == 2
\* feature selection outcomes: at most MaxFlips columns away from a baseline
MaxFlips == 1
\* metric values (rmse, qwk) of a candidate range over 1..MaxMetric
MaxMetric == 2
\* a regressor's output overshoots the label range 0..3 by up to Overshoot halves
Overshoot == 2
\* rows of a target column
MaxColumn == 3
\* fit invocations of the pipeline steps in a row
MaxFits == 3

(***************************************************************************)
(* Generic helpers.                                                        *)
(***************************************************************************)
Range(s) == {s[i] : i \in DOMAIN s}

Min(a, b) == IF a <= b THEN a ELSE b

RECURSIVE SumSeq(_)
SumSeq(s) == IF s = <<>> THEN 0 ELSE Head(s) + SumSeq(Tail(s))

RECURSIVE FlattenSeq(_)
FlattenSeq(ss) == IF ss = <<>> THEN <<>> ELSE Head(ss) \o FlattenSeq(Tail(ss))

\* the elements of s that are not in set S, in the order of s
Without(s, S) == SelectSeq(s, LAMBDA x : x \notin S)

\* the elements of s that are in set S, in the order of s
Within(s, S) == SelectSeq(s, LAMBDA x : x \in S)

(***************************************************************************)
(* Cells.                                                                  *)
(***************************************************************************)
Str(s) == [t |-> "str", s |-> s, n |-> 0]
Num(n) == [t |-> "num", s |-> "", n |-> n]
NaN == [t |-> "nan", s |-> "", n |-> 0]

None == [present |-> FALSE]

(***************************************************************************)
(* Program constants.                                                      *)
(***************************************************************************)
\* FeatureBuilder.nominal_variables as declared in __init__
DeclaredNominal ==
    <<"Gender", "Caste", "coaching", "time", "Class_ten_education",
      "twelve_education", "medium", "Father_occupation", "Mother_occupation">>

\* FeatureBuilder.ordinal_variables
DeclaredOrdinal == <<"Class_X_Percentage", "Class_XII_Percentage">>

target_variable == "Performance"

OrdinalLabels == {"EXCELLENT", "VG", "GOOD", "AVERAGE"}

\* the 4-level table shared by ordinal_mapping[col] and target_mapping
LevelCode(label) ==
    CASE label = "EXCELLENT" -> 3
      [] label = "VG" -> 2
      [] label = "GOOD" -> 1
      [] label = "AVERAGE" -> 0

\* pandas Series.map(dict) on one cell: a key of the dict gives its value,
\* anything else gives NaN
MapCell(cell, keys) ==
    IF cell.t = "str" /\ cell.s \in keys THEN Num(LevelCode(cell.s)) ELSE NaN

\* ModelPredictor.nominal_variables
ServingNominal ==
    <<"Caste", "coaching", "Class_ten_education", "medium",
      "Father_occupation", "Mother_occupation">>

\* ModelPredictor.ordinal_variables
ServingOrdinal == <<"Class_X_Percentage", "Class_XII_Percentage">>

\* fallback nominal list of calculate_features.main
FallbackNominal ==
    <<"Caste", "coaching", "medium", "Father_occupation", "Mother_occupation">>

(***************************************************************************)
(* Data frames.                                                            *)
(***************************************************************************)
Frame(cols, rows) == [cols |-> cols, rows |-> rows]

HasCol(df, c) == c \in Range(df.cols)

\* df.drop(columns=names): every named column is a column of df
DropCols(df, names) ==
    LET keep == Without(df.cols, names)
    IN  Frame(keep, [i \in DOMAIN df.rows |-> [c \in Range(keep) |-> df.rows[i][c]]])

\* df[names]: the named columns in the order of names
SelectCols(df, names) ==
    Frame(names, [i \in DOMAIN df.rows |-> [c \in Range(names) |-> df.rows[i][c]]])

\* df[c] = f(row): an existing column keeps its position, a new one is appended
SetCol(df, c, F(_)) ==
    Frame(IF HasCol(df, c) THEN df.cols ELSE Append(df.cols, c),
          [i \in DOMAIN df.rows |->
              [d \in Range(df.cols) \cup {c} |->
                  IF d = c THEN F(df.rows[i]) ELSE df.rows[i][d]]])

\* pd.concat([a, b], axis=1) of frames over the same index, disjoint columns
ConcatCols(a, b) ==
    Frame(a.cols \o b.cols,
          [i \in DOMAIN a.rows |->
              [c \in Range(a.cols) \cup Range(b.cols) |->
                  IF c \in Range(b.cols) THEN b.rows[i][c] ELSE a.rows[i][c]]])

\* df.values: one sequence of cells per row, in column order
Values(df) == [i \in DOMAIN df.rows |-> [j \in DOMAIN df.cols |-> df.rows[i][df.cols[j]]]]

(***************************************************************************)
(* The cleaned training table read by load_data.                           *)
(***************************************************************************)
\* category levels in lexicographic order (the order sklearn sorts them in)
LevelNames == <<"L1", "L2", "L3", "L4", "L5">>

LabelNames == <<"AVERAGE", "GOOD", "VG", "EXCELLENT">>

\* column order of the cleaned CSV
CsvColumns ==
    <<"Performance", "Gender", "Caste", "coaching", "time",
      "Class_ten_education", "twelve_education", "medium",
      "Class_X_Percentage", "Class_XII_Percentage",
      "Father_occupation", "Mother_occupation">>

\* row k of the table: level k in every nominal column, label k elsewhere
TableRow(k) ==
    [c \in Range(CsvColumns) |->
        IF c \in Range(DeclaredNominal) THEN Str(LevelNames[k])
        ELSE Str(LabelNames[((k - 1) % 4) + 1])]

TrainingTable == Frame(CsvColumns, [k \in 1..NumLevels |-> TableRow(k)])

(***************************************************************************)
(* Results of operations that may raise.                                   *)
(***************************************************************************)
NoError == [type |-> "", what |-> "", expected |-> 0, got |-> 0, names |-> <<>>]

Error(type, what) ==
    [type |-> type, what |-> what, expected |-> 0, got |-> 0, names |-> <<>>]

Ok(v) == [ok |-> TRUE, val |-> v, err |-> NoError]

\* a raise: v is only the placeholder that keeps the result's shape
Raise(e, v) == [ok |-> FALSE, val |-> v, err |-> e]

NoFrame == Frame(<<>>, <<>>)

(***************************************************************************)
(* sklearn OneHotEncoder(sparse_output=False, drop="first"), as built by   *)
(* FeatureBuilder.onehot_encode; handle_unknown keeps its default, "error".*)
(***************************************************************************)
\* fit on a frame of string columns: per column the sorted distinct levels
EncoderFit(X) ==
    [present |-> TRUE,
     has_feature_names_in |-> TRUE,
     feature_names_in_ |-> X.cols,
     n_features_in_ |-> Len(X.cols),
     categories_ |->
        [j \in DOMAIN X.cols |->
            Within(LevelNames, {X.rows[i][X.cols[j]].s : i \in DOMAIN X.rows})],
     origin |-> "FeatureBuilder"]

\* the indicator columns of feature j: every level but the first (drop="first")
KeptLevels(enc, j) == Tail(enc.categories_[j])

\* OneHotEncoder.get_feature_names_out(input_features)
GetFeatureNamesOut(enc, input_features) ==
    IF enc.has_feature_names_in /\ input_features # enc.feature_names_in_
    THEN Raise(Error("ValueError", "input_features is not equal to feature_names_in_"), <<>>)
    ELSE IF Len(input_features) # enc.n_features_in_
    THEN Raise(Error("ValueError", "input_features should have length equal to number of features"), <<>>)
    ELSE Ok(FlattenSeq(
            [j \in 1..enc.n_features_in_ |->
                [i \in DOMAIN KeptLevels(enc, j) |->
                    input_features[j] \o "_" \o KeptLevels(enc, j)[i]]]))

\* the indicator cells of one row
EncodeRow(enc, X, row) ==
    FlattenSeq(
        [j \in 1..enc.n_features_in_ |->
            [i \in DOMAIN KeptLevels(enc, j) |->
                IF row[X.cols[j]] = Str(KeptLevels(enc, j)[i]) THEN Num(1) ELSE Num(0)]])

\* the encoder is constructed without handle_unknown: sklearn's default
handle_unknown == "error"

\* OneHotEncoder.transform(X) for a frame X
EncoderTransform(enc, X) ==
    IF enc.has_feature_names_in /\ X.cols # enc.feature_names_in_
    THEN Raise(Error("ValueError", "feature names should match those passed during fit"), <<>>)
    ELSE IF Len(X.cols) # enc.n_features_in_
    THEN Raise(Error("ValueError", "X has a different number of features"), <<>>)
    ELSE IF /\ handle_unknown = "error"
            /\ \E i \in DOMAIN X.rows, j \in DOMAIN X.cols :
                  \A l \in Range(enc.categories_[j]) : X.rows[i][X.cols[j]] # Str(l)
    THEN Raise(Error("ValueError", "Found unknown categories during transform"), <<>>)
    ELSE Ok([i \in DOMAIN X.rows |-> EncodeRow(enc, X, X.rows[i])])

\* pd.DataFrame(arr, columns=names)
FrameOf(arr, names) ==
    Frame(names, [i \in DOMAIN arr |-> [c \in Range(names) |->
        arr[i][CHOOSE j \in DOMAIN names : names[j] = c]]])

(***************************************************************************)
(* sklearn PCA(n_components=variance_threshold).  The fitted projection is *)
(* (X - mean_) @ components_.T; the basis stands for the fitted            *)
(* components and the centring is kept exact by scaling with n_samples.    *)
(***************************************************************************)
IsNumeric(X) == \A i \in DOMAIN X : \A j \in DOMAIN X[i] : X[i][j].t = "num"

Component(j, i) == ((i * j) % 3) + 1

PcaFit(X, cols) ==
    IF Len(cols) = 0
    THEN Raise(Error("ValueError", "Found array with 0 feature(s)"), None)
    ELSE IF ~IsNumeric(X)
    THEN Raise(Error("ValueError", "could not convert string to float or NaN in input"), None)
    ELSE Ok([present |-> TRUE,
             has_n_features_in |-> TRUE,
             n_features_in_ |-> Len(cols),
             n_samples |-> Len(X),
             n_components_ |-> Min(Len(cols), Len(X)),
             colsum |-> [j \in DOMAIN cols |-> SumSeq([i \in DOMAIN X |-> X[i][j].n])],
             fit_columns |-> cols,
             origin |-> "FeatureBuilder"])

ProjectRow(pca, x) ==
    [j \in 1..pca.n_components_ |->
        Num(SumSeq([i \in DOMAIN x |->
            Component(j, i) * (pca.n_samples * x[i].n - pca.colsum[i])]))]

\* PCA.transform(X) for a matrix X (a sequence of rows of cells)
PcaTransform(pca, X) ==
    IF \E i \in DOMAIN X : Len(X[i]) # pca.n_features_in_
    THEN Raise(Error("ValueError", "X has a different number of features than PCA expects"), <<>>)
    ELSE IF ~IsNumeric(X)
    THEN Raise(Error("ValueError", "Input X contains NaN or strings"), <<>>)
    ELSE Ok([i \in DOMAIN X |-> ProjectRow(pca, X[i])])

PcColumns(k) == [i \in 1..k |-> "PC" \o ToString(i)]

(***************************************************************************)
(* FeatureBuilder (build_features.py).                                     *)
(***************************************************************************)
\* thresholds of the selection gate, in hundredths
alpha == 5
min_cramers_v == 10

\* chi-square p-value and Cramer's V of each nominal column against the
\* target, in hundredths: the columns of S are associated with the target,
\* the others miss the gate by the p-value (mode "p") or by the effect size
StatsFor(S, mode) ==
    [c \in Range(DeclaredNominal) |->
        IF c \in S THEN [p_value |-> 4, cramers_v |-> 10]
        ELSE IF mode = "p" THEN [p_value |-> 5, cramers_v |-> 30]
        ELSE [p_value |-> 1, cramers_v |-> 9]]

Baselines == {{}, Range(DeclaredNominal), Range(ServingNominal)}

\* the sets of associated columns the model draws the statistics from
Profiles ==
    {S \in SUBSET Range(DeclaredNominal) :
        \E B \in Baselines : Cardinality((S \ B) \cup (B \ S)) <= MaxFlips}

\* mutant of select_nominal_features: the effect size must exceed the threshold
select_nominal_features_strict(df, nominal_variables, stats) ==
    SelectSeq(nominal_variables,
              LAMBDA var : /\ HasCol(df, var)
                           /\ stats[var].p_value < alpha
                           /\ stats[var].cramers_v > min_cramers_v)

\* FeatureBuilder.select_nominal_features
select_nominal_features(df, nominal_variables, stats) ==
    SelectSeq(nominal_variables,
              LAMBDA var : /\ HasCol(df, var)
                           /\ stats[var].p_value < alpha
                           /\ stats[var].cramers_v >= min_cramers_v)

\* threshold of the ordinal gate, in hundredths
min_correlation == 10

Abs(x) == IF x < 0 THEN 0 - x ELSE x

\* Spearman correlation and p-value of an ordinal column against the target,
\* in hundredths; nan is what spearmanr returns for a constant column
OrdinalStats ==
    {[nan |-> FALSE, p_value |-> 4, correlation |-> 10],
     [nan |-> FALSE, p_value |-> 4, correlation |-> 0 - 10],
     [nan |-> FALSE, p_value |-> 5, correlation |-> 30],
     [nan |-> FALSE, p_value |-> 1, correlation |-> 9],
     [nan |-> FALSE, p_value |-> 1, correlation |-> 0 - 9],
     [nan |-> TRUE, p_value |-> 0, correlation |-> 0]}

\* FeatureBuilder.select_ordinal_features: a comparison with nan is False
select_ordinal_features(df, ordinal_variables, stats) ==
    SelectSeq(ordinal_variables,
              LAMBDA col : /\ HasCol(df, col)
                           /\ ~stats[col].nan
                           /\ stats[col].p_value < alpha
                           /\ Abs(stats[col].correlation) >= min_correlation)

\* the feature-selection block of run_pipeline
SelectionBlock(b, stats) ==
    LET selected_nominal == select_nominal_features(b.df, b.nominal_variables, stats)
        nominal_to_drop == Range(b.nominal_variables) \ Range(selected_nominal)
    IN  IF nominal_to_drop # {}
        THEN [b EXCEPT !.df = DropCols(b.df, nominal_to_drop),
                       !.nominal_variables = selected_nominal]
        ELSE b

\* FeatureBuilder.encode_ordinal_target
encode_ordinal_target(df) ==
    IF HasCol(df, target_variable)
    THEN SetCol(df, "Performance_encoded",
                LAMBDA row : MapCell(row[target_variable], OrdinalLabels))
    ELSE df

\* mutant of onehot_encode: the original columns stay in the result
onehot_encode_keeps_original(df, nominal_features, drop_original) ==
    LET features_to_encode == Within(nominal_features, Range(df.cols))
        enc == EncoderFit(SelectCols(df, features_to_encode))
        arr == EncoderTransform(enc, SelectCols(df, features_to_encode)).val
        names == GetFeatureNamesOut(enc, features_to_encode).val
        onehot_df == FrameOf(arr, names)
    IN  IF features_to_encode = <<>>
        THEN [df |-> df, onehot_encoder |-> None]
        ELSE [df |-> ConcatCols(df, onehot_df), onehot_encoder |-> enc]

\* FeatureBuilder.onehot_encode: the new frame and the encoder it fitted
onehot_encode(df, nominal_features, drop_original) ==
    LET features_to_encode == Within(nominal_features, Range(df.cols))
        enc == EncoderFit(SelectCols(df, features_to_encode))
        arr == EncoderTransform(enc, SelectCols(df, features_to_encode)).val
        names == GetFeatureNamesOut(enc, features_to_encode).val
        onehot_df == FrameOf(arr, names)
        df_result == IF drop_original THEN DropCols(df, Range(features_to_encode)) ELSE df
    IN  IF features_to_encode = <<>>
        THEN [df |-> df, onehot_encoder |-> None]
        ELSE [df |-> ConcatCols(df_result, onehot_df), onehot_encoder |-> enc]

\* the columns run_pipeline drops after the encoding
ColsDroppedAfterEncoding == Range(DeclaredOrdinal) \cup {target_variable}

\* the encoding block of run_pipeline
EncodingBlock(b) ==
    LET r == onehot_encode(b.df, b.nominal_variables, TRUE)
        cols_to_drop == ColsDroppedAfterEncoding \cap Range(r.df.cols)
    IN  [b EXCEPT !.df = DropCols(r.df, cols_to_drop),
                  !.onehot_encoder =
                      IF r.onehot_encoder.present THEN r.onehot_encoder ELSE @]

\* the columns FeatureBuilder.apply_pca fits the reducer on (exclude_target)
PcaFeatureCols(df) == Without(df.cols, {target_variable, "Performance_encoded"})

\* FeatureBuilder.apply_pca: the reduced frame and the fitted model, or a raise
FB_apply_pca(df) ==
    LET feature_cols == PcaFeatureCols(df)
        X == Values(SelectCols(df, feature_cols))
        fit == PcaFit(X, feature_cols)
        X_pca == PcaTransform(fit.val, X).val
        df_pca == FrameOf(X_pca, PcColumns(fit.val.n_components_))
    IN  IF ~fit.ok THEN Raise(fit.err, [df |-> NoFrame, pca_model |-> None])
        ELSE Ok([df |->
                    IF HasCol(df, target_variable)
                    THEN Frame(Append(df_pca.cols, target_variable),
                               [i \in DOMAIN df.rows |->
                                   df_pca.rows[i] @@
                                   (target_variable :> df.rows[i][target_variable])])
                    ELSE IF HasCol(df, "Performance_encoded")
                    THEN Frame(Append(df_pca.cols, "Performance"),
                               [i \in DOMAIN df.rows |->
                                   df_pca.rows[i] @@
                                   ("Performance" :> df.rows[i]["Performance_encoded"])])
                    ELSE df_pca,
                 pca_model |-> fit.val])

(***************************************************************************)
(* One FeatureBuilder run: run_pipeline stage by stage, then save_features *)
(* and save_artifacts (build_features.main, FeatureBuildingStep.fit).      *)
(***************************************************************************)
NewBuilder ==
    [df |-> NoFrame,
     nominal_variables |-> DeclaredNominal,
     onehot_encoder |-> None,
     pca_model |-> None]

\* FeatureBuilder.load_data
LoadData ==
    /\ pc = "init"
    /\ \E input_exists \in BOOLEAN :
          IF input_exists
          THEN /\ builder' = [builder EXCEPT !.df = TrainingTable]
               /\ pc' = "loaded"
          ELSE /\ UNCHANGED builder
               /\ pc' = "failed"
    /\ UNCHANGED <<flags, disk, pipeline, inf, predictor, srv, store, trainer, resp, app, main, fsys, call>>

\* run_pipeline: feature selection
FeatureSelection ==
    /\ pc = "loaded"
    /\ IF flags.feature_selection
       THEN \E S \in Profiles, mode \in {"p", "v"} :
               builder' = SelectionBlock(builder, StatsFor(S, mode))
       ELSE UNCHANGED builder
    /\ pc' = "selected"
    /\ UNCHANGED <<flags, disk, pipeline, inf, predictor, srv, store, trainer, resp, app, main, fsys, call>>

\* run_pipeline: encode target
EncodeTarget ==
    /\ pc = "selected"
    /\ builder' = [builder EXCEPT !.df = encode_ordinal_target(@)]
    /\ pc' = "target_encoded"
    /\ UNCHANGED <<flags, disk, pipeline, inf, predictor, srv, store, trainer, resp, app, main, fsys, call>>

\* run_pipeline: one-hot encoding of the nominal features
OneHotEncoding ==
    /\ pc = "target_encoded"
    /\ IF flags.apply_encoding /\ builder.nominal_variables # <<>>
       THEN builder' = EncodingBlock(builder)
       ELSE UNCHANGED builder
    /\ pc' = "encoded"
    /\ UNCHANGED <<flags, disk, pipeline, inf, predictor, srv, store, trainer, resp, app, main, fsys, call>>

\* run_pipeline: PCA; a raise of the fit ends the run
ApplyPca ==
    /\ pc = "encoded"
    /\ IF flags.apply_pca
       THEN LET r == FB_apply_pca(builder.df)
            IN  IF r.ok
                THEN /\ builder' = [builder EXCEPT !.df = r.val.df,
                                                   !.pca_model = r.val.pca_model]
                     /\ pc' = "reduced"
                ELSE /\ UNCHANGED builder
                     /\ pc' = "failed"
       ELSE /\ UNCHANGED builder
            /\ pc' = "reduced"
    /\ UNCHANGED <<flags, disk, pipeline, inf, predictor, srv, store, trainer, resp, app, main, fsys, call>>

\* the points where a write of the save stage can raise (OSError)
SaveFeaturesIo == {"ok", "to_csv"}
SaveArtifactsIo == {"ok", "mkdir", "encoder_dump", "pca_dump"}

\* mutant of SaveFeatures: the table is written before the PCA stage
SaveFeaturesBeforePca ==
    /\ pc = "encoded"
    /\ disk' = [disk EXCEPT !.features = [present |-> TRUE, df |-> builder.df]]
    /\ pc' = "features_saved"
    /\ UNCHANGED <<flags, builder, pipeline, inf, predictor, srv, store, trainer, resp, app, main, fsys, call>>

\* FeatureBuilder.save_features
SaveFeatures ==
    /\ pc = "reduced"
    /\ \E io \in SaveFeaturesIo :
          IF io = "ok"
          THEN /\ disk' = [disk EXCEPT !.features = [present |-> TRUE, df |-> builder.df]]
               /\ pc' = "features_saved"
          ELSE /\ UNCHANGED disk
               /\ pc' = "save_failed"
    /\ UNCHANGED <<flags, builder, pipeline, inf, predictor, srv, store, trainer, resp, app, main, fsys, call>>

\* FeatureBuilder.save_artifacts
SaveArtifacts ==
    /\ pc = "features_saved"
    /\ \E io \in SaveArtifactsIo :
          /\ io = "encoder_dump" => builder.onehot_encoder.present
          /\ io = "pca_dump" => builder.pca_model.present
          /\ disk' = [disk EXCEPT
                !.encoder = IF builder.onehot_encoder.present /\ io \in {"ok", "pca_dump"}
                            THEN builder.onehot_encoder ELSE @,
                !.pca = IF builder.pca_model.present /\ io = "ok"
                        THEN builder.pca_model ELSE @]
          /\ pc' = IF io = "ok" THEN "saved" ELSE "save_failed"
    /\ UNCHANGED <<flags, builder, pipeline, inf, predictor, srv, store, trainer, resp, app, main, fsys, call>>

(***************************************************************************)
(* FeatureInferencePipelineAdjusted (calculate_features.py).               *)
(***************************************************************************)
\* mutant of Construct: the caller's list is kept as nominal_variables although
\* the one-hot names are derived from the encoder
ConstructKeepsCallerList(encoder_file, pca_file, nominal_variables, ordinal_variables) ==
    LET nominal == IF encoder_file.has_feature_names_in
                   THEN encoder_file.feature_names_in_
                   ELSE nominal_variables
        names == GetFeatureNamesOut(encoder_file, nominal)
    IN  IF ~encoder_file.present
        THEN Raise(Error("FileNotFoundError", "OneHot encoder not found"), None)
        ELSE IF ~pca_file.present
        THEN Raise(Error("FileNotFoundError", "PCA model not found"), None)
        ELSE IF ~names.ok
        THEN Raise(names.err, None)
        ELSE Ok([present |-> TRUE,
                 nominal_variables |-> nominal_variables,
                 ordinal_variables |-> ordinal_variables,
                 expected_onehot_names |-> names.val,
                 encoder |-> encoder_file,
                 pca |-> pca_file])

\* __init__: load both artifacts, take the nominal columns from the encoder
\* (or, without feature_names_in_, from the caller), derive the one-hot names
Construct(encoder_file, pca_file, nominal_variables, ordinal_variables) ==
    LET nominal == IF encoder_file.has_feature_names_in
                   THEN encoder_file.feature_names_in_
                   ELSE nominal_variables
        names == GetFeatureNamesOut(encoder_file, nominal)
    IN  IF ~encoder_file.present
        THEN Raise(Error("FileNotFoundError", "OneHot encoder not found"), None)
        ELSE IF ~pca_file.present
        THEN Raise(Error("FileNotFoundError", "PCA model not found"), None)
        ELSE IF ~names.ok
        THEN Raise(names.err, None)
        ELSE Ok([present |-> TRUE,
                 nominal_variables |-> nominal,
                 ordinal_variables |-> ordinal_variables,
                 expected_onehot_names |-> names.val,
                 encoder |-> encoder_file,
                 pca |-> pca_file])

\* {col}_encoded
EncodedName(col) == col \o "_encoded"

\* the keys of ordinal_mapping.get(col, {}), ordinal_mapping as in main
OrdinalKeys(col) == IF col \in Range(DeclaredOrdinal) THEN OrdinalLabels ELSE {}

\* encode_ordinal: one {col}_encoded column per ordinal column of the input
RECURSIVE EncodeOrdinalCols(_, _)
EncodeOrdinalCols(df, cols) ==
    IF cols = <<>> THEN df
    ELSE LET col == Head(cols)
             next == IF HasCol(df, col)
                     THEN SetCol(df, EncodedName(col),
                                 LAMBDA row : MapCell(row[col], OrdinalKeys(col)))
                     ELSE df
         IN  EncodeOrdinalCols(next, Tail(cols))

encode_ordinal(p, df) == EncodeOrdinalCols(df, p.ordinal_variables)

\* _force_onehot_dataframe, first loop: absent expected columns are added as 0.0
RECURSIVE FillMissing(_, _)
FillMissing(df, names) ==
    IF names = <<>> THEN df
    ELSE FillMissing(IF HasCol(df, Head(names)) THEN df
                     ELSE SetCol(df, Head(names), LAMBDA row : Num(0)),
                     Tail(names))

\* mutant of force_onehot_dataframe: the final reorder is left out
force_onehot_no_reorder(p, onehot_df) ==
    LET filled == FillMissing(onehot_df, p.expected_onehot_names)
        extras == Range(filled.cols) \ Range(p.expected_onehot_names)
    IN  IF extras # {} THEN DropCols(filled, extras) ELSE filled

\* _force_onehot_dataframe
force_onehot_dataframe(p, onehot_df) ==
    LET filled == FillMissing(onehot_df, p.expected_onehot_names)
        extras == Range(filled.cols) \ Range(p.expected_onehot_names)
        kept == IF extras # {} THEN DropCols(filled, extras) ELSE filled
    IN  SelectCols(kept, p.expected_onehot_names)

\* mutant of MissingNominal: the check runs over the declared nominal columns
\* instead of the encoder's
MissingNominalDeclared(p, df) == Without(DeclaredNominal, Range(df.cols))

\* _check_nominal_columns_present: the missing columns
MissingNominal(p, df) == Without(p.nominal_variables, Range(df.cols))

\* apply_onehot
apply_onehot(p, df) ==
    LET missing == MissingNominal(p, df)
        X_nominal == SelectCols(df, p.nominal_variables)
        onehot_arr == EncoderTransform(p.encoder, X_nominal)
        onehot_cols == GetFeatureNamesOut(p.encoder, p.nominal_variables)
        onehot_df == force_onehot_dataframe(p, FrameOf(onehot_arr.val, onehot_cols.val))
        dropped == DropCols(df, Range(p.nominal_variables))
    IN  IF missing # <<>>
        THEN Raise([Error("ValueError", "Input data is missing nominal columns")
                        EXCEPT !.names = missing], NoFrame)
        ELSE IF ~onehot_arr.ok
        THEN Raise(Error("RuntimeError", "OneHotEncoder.transform failed"), NoFrame)
        ELSE IF ~onehot_cols.ok
        THEN Raise(onehot_cols.err, NoFrame)
        ELSE Ok(ConcatCols(dropped, onehot_df))

\* the feature list apply_pca assembles: one-hot names, then ordinal encoded
AllPcaFeatures(p) ==
    p.expected_onehot_names \o [i \in DOMAIN p.ordinal_variables |->
                                   EncodedName(p.ordinal_variables[i])]

\* the feature count the reducer was fit on
NExpected(p) ==
    IF p.pca.has_n_features_in THEN p.pca.n_features_in_
    ELSE Len(p.expected_onehot_names)

\* mutant of ShapeMismatch: only a too narrow input is rejected
ShapeMismatchTooFewOnly(n_expected, n_input) == n_input < n_expected

ShapeMismatch(n_expected, n_input) == n_input # n_expected

\* apply_pca
apply_pca(p, df0) ==
    LET df == IF HasCol(df0, target_variable) THEN DropCols(df0, {target_variable}) ELSE df0
        n_expected == NExpected(p)
        all_pca_features == AllPcaFeatures(p)
        padded == FillMissing(df, all_pca_features)
        X == Values(SelectCols(padded, all_pca_features))
        X_pca == PcaTransform(p.pca, X)
    IN  IF ShapeMismatch(n_expected, Len(all_pca_features))
        THEN Raise([type |-> "RuntimeError", what |-> "Shape mismatch for PCA",
                    expected |-> n_expected, got |-> Len(all_pca_features),
                    names |-> all_pca_features], NoFrame)
        ELSE IF ~X_pca.ok
        THEN Raise(X_pca.err, NoFrame)
        ELSE Ok(FrameOf(X_pca.val, PcColumns(p.pca.n_components_)))

\* transform, step 6: the target is reattached and mapped through target_mapping
ReattachTarget(df, target_series) ==
    Frame(IF HasCol(df, target_variable) THEN df.cols ELSE Append(df.cols, target_variable),
          [i \in DOMAIN df.rows |->
              [c \in Range(df.cols) \cup {target_variable} |->
                  IF c = target_variable
                  THEN MapCell(target_series[i], OrdinalLabels)
                  ELSE df.rows[i][c]]])

\* mutant of WithoutTarget: the target is not set aside
WithoutTargetKept(df) == df

\* transform, step 1: the frame the feature steps work on
WithoutTarget(df) ==
    IF HasCol(df, target_variable) THEN DropCols(df, {target_variable}) ELSE df

\* mutant of transform: the one-hot step runs before the ordinal step
transform_onehot_first(p, df_in, with_pca) ==
    LET has_target == HasCol(df_in, target_variable)
        target_series == [i \in DOMAIN df_in.rows |-> df_in.rows[i][target_variable]]
        df1 == WithoutTarget(df_in)
        r2 == apply_onehot(p, df1)
        df3 == encode_ordinal(p, r2.val)
        df4 == DropCols(df3, Range(p.ordinal_variables) \cap Range(df3.cols))
        r5 == IF with_pca THEN apply_pca(p, df4) ELSE Ok(df4)
    IN  IF ~r2.ok THEN r2
        ELSE IF ~r5.ok THEN r5
        ELSE IF has_target THEN Ok(ReattachTarget(r5.val, target_series))
        ELSE r5

\* transform
transform(p, df_in, with_pca) ==
    LET has_target == HasCol(df_in, target_variable)
        target_series == [i \in DOMAIN df_in.rows |-> df_in.rows[i][target_variable]]
        df1 == WithoutTarget(df_in)
        df2 == encode_ordinal(p, df1)
        r3 == apply_onehot(p, df2)
        df4 == DropCols(r3.val, Range(p.ordinal_variables) \cap Range(r3.val.cols))
        r5 == IF with_pca THEN apply_pca(p, df4) ELSE Ok(df4)
    IN  IF ~r3.ok THEN r3
        ELSE IF ~r5.ok THEN r5
        ELSE IF has_target THEN Ok(ReattachTarget(r5.val, target_series))
        ELSE r5

\* Object identity of the frames transform works on.  A binding records the
\* frame the local name df denotes, the frame of the caller's object, and
\* whether df still names the caller's object (alias).
Bind(df) == [df |-> df, caller |-> df, alias |-> TRUE]

\* df = <a new frame>: drop, concat and the like return new objects
Rebind(s, new_df) == [s EXCEPT !.df = new_df, !.alias = FALSE]

\* df[c] = ...: the object df names is changed in place
AssignInPlace(s, new_df) ==
    [df |-> new_df, caller |-> IF s.alias THEN new_df ELSE s.caller, alias |-> s.alias]

\* mutant of CopyFrame: the statement df = df.copy() is left out
CopyFrameOmitted(s) == s

\* df = df.copy()
CopyFrame(s) == Rebind(s, s.df)

\* encode_ordinal seen from its caller: the frame it returns, its argument
\* after the call, and whether it returned the argument object itself
EncodeOrdinalEffect(p, arg) ==
    LET a1 == CopyFrame(Bind(arg))
        a2 == AssignInPlace(a1, EncodeOrdinalCols(a1.df, p.ordinal_variables))
    IN  [ret |-> a2.df, arg |-> a2.caller, same |-> a2.alias]

\* df = f(df)
CallOn(s, eff) ==
    [df |-> eff.ret,
     caller |-> IF s.alias THEN eff.arg ELSE s.caller,
     alias |-> s.alias /\ eff.same]

\* the caller's frame after transform(df): the statements of transform up to
\* encode_ordinal; apply_onehot, the drop of the ordinal columns and apply_pca
\* assign in place only to frames they created, and the target is reattached
\* to the frame those steps returned
CallerFrameAfter(p, df_in) ==
    LET s1 == CopyFrame(Bind(df_in))
        s2 == IF HasCol(s1.df, target_variable)
              THEN Rebind(s1, DropCols(s1.df, {target_variable}))
              ELSE s1
        s3 == CallOn(s2, EncodeOrdinalEffect(p, s2.df))
    IN  s3.caller

\* the pipeline object after transform: no statement of transform or of the
\* methods it calls assigns to an attribute of self
SelfAfter(p) == p

(***************************************************************************)
(* The MLflow tracking store and model registry.  runs is in start order;  *)
(* a run holds its model at artifact_path; a model version names the run   *)
(* and the path of its source.                                             *)
(***************************************************************************)
EmptyStore == [experiments |-> {}, runs |-> <<>>, versions |-> <<>>]

RECURSIVE Join(_, _)
Join(words, sep) ==
    IF Len(words) = 0 THEN ""
    ELSE IF Len(words) = 1 THEN words[1]
    ELSE words[1] \o sep \o Join(Tail(words), sep)

\* an experiment name, as its words between the spaces
ExperimentNames == {<<"mlflow-student-performance-experiment">>, <<"student", "performance">>}
ExperimentName(words) == Join(words, " ")

\* the candidate families, in the order train_all_models trains them
Candidates == <<"LightGBM", "XGBoost", "CatBoost">>

\* experiment_name.replace(' ', '_') + '_' + best_model_name
RegisteredModelName(words, best_model_name) == Join(words, "_") \o "_" \o best_model_name

\* every registry name of the model in ascending code-point order, the order
\* search_registered_models returns registered models in
SortedRegistryNames ==
    <<"CatBoost", "LightGBM", "XGBoost",
      "mlflow-student-performance-experiment_CatBoost",
      "mlflow-student-performance-experiment_LightGBM",
      "mlflow-student-performance-experiment_XGBoost",
      "student_performance_CatBoost",
      "student_performance_LightGBM",
      "student_performance_XGBoost">>

search_registered_models(st) ==
    SelectSeq(SortedRegistryNames,
              LAMBDA name : \E i \in DOMAIN st.versions : st.versions[i].name = name)

\* the versions of a registered model, oldest first
VersionsOf(st, name) == SelectSeq(st.versions, LAMBDA v : v.name = name)

\* get_latest_versions(name, stages=["None"]): no version is ever moved to a
\* stage, so this is the highest version of the name
get_latest_versions(st, name) ==
    LET vs == VersionsOf(st, name)
    IN  IF vs = <<>> THEN <<>> ELSE <<vs[Len(vs)]>>

\* the model stored in run r at the artifact path, if any
ArtifactAt(st, r, path) ==
    IF r \in DOMAIN st.runs /\ st.runs[r].artifact_path = path
    THEN Ok([present |-> TRUE, run |-> r, run_name |-> st.runs[r].run_name])
    ELSE Raise(Error("MlflowException", "no model at the artifact path of the run"), None)

\* the runs of an experiment with the run name, as indexes, oldest first
RunsNamed(st, experiment, run_name) ==
    SelectSeq([i \in DOMAIN st.runs |-> i],
              LAMBDA i : st.runs[i].experiment = experiment /\ st.runs[i].run_name = run_name)

RunsOf(st, experiment) ==
    SelectSeq([i \in DOMAIN st.runs |-> i], LAMBDA i : st.runs[i].experiment = experiment)

NewVersion(st, name, run, path) ==
    [name |-> name, version |-> Len(VersionsOf(st, name)) + 1, run |-> run, path |-> path,
     tags |-> {}]

(***************************************************************************)
(* ModelTrainer (train_model.py).                                          *)
(***************************************************************************)
\* evaluate_and_log_model, the MLflow part: the experiment is created if
\* absent, a run named model_name is started, and log_model stores the
\* model at artifact_path = model_name and registers it as model_name
log_model(st, experiment, model_name) ==
    LET run == [experiment |-> experiment, run_name |-> model_name,
                artifact_path |-> model_name]
        r == Len(st.runs) + 1
    IN  [experiments |-> st.experiments \cup {experiment},
         runs |-> Append(st.runs, run),
         versions |-> Append(st.versions, NewVersion(st, model_name, r, model_name))]

\* np.rint on a value given in halves: to the nearest integer, ties to even
Rint(h) ==
    IF h % 2 = 0 THEN h \div 2
    ELSE LET lo == (h - 1) \div 2
         IN  IF lo % 2 = 0 THEN lo ELSE lo + 1

\* evaluate_and_log_model: the prediction that is scored
ScoredPrediction(h) == Rint(h)

\* mutant of get_best_model: a later model replaces an equal earlier one
RECURSIVE BestFromLastWins(_, _, _, _)
BestFromLastWins(model_metrics, metric, maximize, best) ==
    IF model_metrics = <<>> THEN best
    ELSE LET e == Head(model_metrics)
             value == e[metric]
             better == \/ ~best.found
                       \/ maximize /\ value >= best.value
                       \/ ~maximize /\ value <= best.value
         IN  BestFromLastWins(Tail(model_metrics), metric, maximize,
                  IF better THEN [found |-> TRUE, value |-> value, name |-> e.name]
                  ELSE best)

get_best_model_last_wins(model_metrics, metric, maximize) ==
    IF model_metrics = <<>>
    THEN Raise(Error("ValueError", "No models have been trained yet"), "")
    ELSE Ok(BestFromLastWins(model_metrics, metric, maximize,
                             [found |-> FALSE, value |-> 0, name |-> ""]).name)

\* get_best_model, the loop: best.found is FALSE while best_value is the
\* infinity it starts from, which every metric value beats
RECURSIVE BestFrom(_, _, _, _)
BestFrom(model_metrics, metric, maximize, best) ==
    IF model_metrics = <<>> THEN best
    ELSE LET e == Head(model_metrics)
             value == e[metric]
             better == \/ ~best.found
                       \/ maximize /\ value > best.value
                       \/ ~maximize /\ value < best.value
         IN  BestFrom(Tail(model_metrics), metric, maximize,
                  IF better THEN [found |-> TRUE, value |-> value, name |-> e.name]
                  ELSE best)

\* ModelTrainer.get_best_model(metric, maximize)
get_best_model(model_metrics, metric, maximize) ==
    IF model_metrics = <<>>
    THEN Raise(Error("ValueError", "No models have been trained yet"), "")
    ELSE Ok(BestFrom(model_metrics, metric, maximize,
                     [found |-> FALSE, value |-> 0, name |-> ""]).name)

\* what mlflow.register_model does with a runs:/ URI whose path holds no
\* model depends on the MLflow release: the version is recorded with that
\* source, or the call raises
MissingSourceOutcomes == {"recorded", "raises"}

\* the artifact path register_best_model builds its model URI with
RegisterUriPath == "model"

\* ModelTrainer.register_best_model(best_model_name): the store it leaves and
\* the version it returns, or the raise
register_best_model(st, words, best_model_name, on_missing) ==
    LET experiment == ExperimentName(words)
        runs == RunsNamed(st, experiment, best_model_name)
        best_run == runs[Len(runs)]
        registered_model_name == RegisteredModelName(words, best_model_name)
        result == NewVersion(st, registered_model_name, best_run, RegisterUriPath)
        tagged == [result EXCEPT !.tags = {<<"stage", "candidate-for-production">>}]
    IN  IF experiment \notin st.experiments
        THEN Raise(Error("ValueError", "experiment does not exist"), [st |-> st])
        ELSE IF runs = <<>>
        THEN Raise(Error("ValueError", "no run for the model"), [st |-> st])
        ELSE IF ~ArtifactAt(st, best_run, RegisterUriPath).ok /\ on_missing = "raises"
        THEN Raise(Error("MlflowException", "no model at the source"), [st |-> st])
        ELSE Ok([st |-> [st EXCEPT !.versions = Append(@, tagged)],
                 name |-> tagged.name, version |-> tagged.version])

\* model_training.model of the configuration, and what run_pipeline trains
ModelChoices == {"all", "lightgbm", "xgboost", "catboost", "unsupported"}

CandidatesFor(model) ==
    CASE model = "all" -> Candidates
      [] model = "lightgbm" -> <<"LightGBM">>
      [] model = "xgboost" -> <<"XGBoost">>
      [] model = "catboost" -> <<"CatBoost">>
      [] OTHER -> <<>>

Metrics == {"rmse", "qwk"}
MetricValues == 1..MaxMetric

\* regressor outputs, in halves: the label range 0..3 and the overshoot
RegressorOutputs == (0 - Overshoot)..(6 + Overshoot)
\* the outputs the test row of a training run is predicted as
TestOutputs == {0 - Overshoot, 3, 6 + Overshoot}

NoEval == [called |-> FALSE, y_pred |-> 0, y_pred_class |-> 0]
NoName == Raise(Error("", "not called"), "")
NoRegistration ==
    [called |-> FALSE, ok |-> FALSE, err |-> NoError, best_model_name |-> "",
     name |-> "", version |-> 0, before |-> EmptyStore]

\* ModelTrainer.__init__
NewTrainer ==
    [pc |-> "idle",
     experiment |-> <<>>,
     model |-> "",
     metric |-> "",
     maximize |-> TRUE,
     todo |-> <<>>,
     model_metrics |-> <<>>,
     last_eval |-> NoEval,
     best |-> NoName,
     registration |-> NoRegistration,
     versions_at_start |-> 0]

\* run_training.main / train_model.main up to the first candidate:
\* ModelTrainer(...), run_pipeline: load_data, split_data, the model choice
StartTraining ==
    /\ trainer.pc = "idle"
    /\ main.pc \in {"idle", "training"}
    /\ ~predictor.onehot_encoder.present
    /\ \E words \in ExperimentNames, model \in ModelChoices, metric \in Metrics :
          LET loadable == /\ disk.features.present
                          /\ HasCol(disk.features.df, "Performance")
          IN  trainer' = [trainer EXCEPT
                  !.pc = IF loadable /\ model # "unsupported" THEN "training" ELSE "failed",
                  !.experiment = words,
                  !.model = model,
                  !.metric = metric,
                  !.todo = IF loadable THEN CandidatesFor(model) ELSE <<>>,
                  !.versions_at_start = Len(store.versions)]
    /\ UNCHANGED <<pc, flags, builder, disk, pipeline, inf, predictor, srv, store, resp, app, main, fsys, call>>

\* evaluate_and_log_model for the next candidate
TrainCandidate ==
    /\ trainer.pc = "training"
    /\ trainer.todo # <<>>
    /\ \E rmse \in MetricValues, qwk \in MetricValues, y_pred \in TestOutputs :
          LET model_name == Head(trainer.todo)
          IN  /\ store' = log_model(store, ExperimentName(trainer.experiment), model_name)
              /\ trainer' = [trainer EXCEPT
                      !.todo = Tail(@),
                      !.last_eval = [called |-> TRUE, y_pred |-> y_pred,
                                     y_pred_class |-> ScoredPrediction(y_pred)],
                      !.model_metrics =
                          Append(@, [name |-> model_name, rmse |-> rmse, qwk |-> qwk])]
    /\ UNCHANGED <<pc, flags, builder, disk, pipeline, inf, predictor, srv, resp, app, main, fsys, call>>

\* run_training.main: best_model = trainer.get_best_model(metric=...)
SelectBest ==
    /\ trainer.pc = "training"
    /\ trainer.todo = <<>>
    /\ LET best == get_best_model(trainer.model_metrics, trainer.metric, TRUE)
       IN  trainer' = [trainer EXCEPT !.pc = IF best.ok THEN "selected" ELSE "failed",
                                      !.best = best,
                                      !.last_eval = NoEval]
    /\ UNCHANGED <<pc, flags, builder, disk, pipeline, inf, predictor, srv, store, resp, app, main, fsys, call>>

\* what a register_best_model call leaves in the trainer's record
Registration(r, best_model_name, before) ==
    [called |-> TRUE, ok |-> r.ok, err |-> r.err, best_model_name |-> best_model_name,
     name |-> IF r.ok THEN r.val.name ELSE "",
     version |-> IF r.ok THEN r.val.version ELSE 0,
     before |-> before]

\* run_training.main: trainer.register_best_model(best_model_name=best_model)
RegisterBest ==
    /\ trainer.pc = "selected"
    /\ \E on_missing \in MissingSourceOutcomes :
          LET r == register_best_model(store, trainer.experiment, trainer.best.val, on_missing)
          IN  /\ store' = r.val.st
              /\ trainer' = [trainer EXCEPT
                      !.pc = IF r.ok THEN "done" ELSE "register_failed",
                      !.registration = Registration(r, trainer.best.val, store)]
    /\ UNCHANGED <<pc, flags, builder, disk, pipeline, inf, predictor, srv, resp, app, main, fsys, call>>

\* register_best_model called on a new trainer over the store as it is
RegisterDirect ==
    /\ trainer.pc = "idle"
    /\ ~predictor.onehot_encoder.present
    /\ \E words \in ExperimentNames, best_model_name \in Range(Candidates),
          on_missing \in MissingSourceOutcomes :
          LET r == register_best_model(store, words, best_model_name, on_missing)
          IN  /\ store' = r.val.st
              /\ trainer' = [trainer EXCEPT
                      !.pc = "called",
                      !.experiment = words,
                      !.registration = Registration(r, best_model_name, store)]
    /\ UNCHANGED <<pc, flags, builder, disk, pipeline, inf, predictor, srv, resp, app, main, fsys, call>>

\* trainer.get_best_model(metric, maximize) on a trainer holding metrics
GetBestModel ==
    /\ trainer.pc = "trained"
    /\ \E metric \in Metrics, maximize \in BOOLEAN :
          trainer' = [trainer EXCEPT
              !.pc = "asked",
              !.metric = metric,
              !.maximize = maximize,
              !.best = get_best_model(trainer.model_metrics, metric, maximize)]
    /\ UNCHANGED <<pc, flags, builder, disk, pipeline, inf, predictor, srv, store, resp, app, main, fsys, call>>

\* the store after the candidates names were trained in an experiment
RECURSIVE LogAll(_, _, _)
LogAll(st, experiment, names) ==
    IF names = <<>> THEN st
    ELSE LogAll(log_model(st, experiment, Head(names)), experiment, Tail(names))

\* the store an earlier run_training.main left: the candidates of the model
\* choice trained in the configured experiment, the best one registered
StoreAfterRun(st, words, model, best_model_name) ==
    register_best_model(LogAll(st, ExperimentName(words), CandidatesFor(model)),
                        words, best_model_name, "recorded").val.st

(***************************************************************************)
(* ModelPredictor (api.py).                                                *)
(***************************************************************************)
\* the fields of StudentInput, in declaration order
StudentInputFields ==
    <<"Caste", "coaching", "Class_ten_education", "medium",
      "Class_X_Percentage", "Class_XII_Percentage",
      "Father_occupation", "Mother_occupation">>

\* preprocess_input: the ordinal columns are mapped in place
RECURSIVE MapOrdinalInPlace(_, _)
MapOrdinalInPlace(df, cols) ==
    IF cols = <<>> THEN df
    ELSE LET col == Head(cols)
         IN  MapOrdinalInPlace(
                 IF HasCol(df, col)
                 THEN SetCol(df, col, LAMBDA row : MapCell(row[col], OrdinalKeys(col)))
                 ELSE df,
                 Tail(cols))

\* the columns preprocess_input hands to the encoder
EncoderInputCols(m) == m.nominal_variables

\* preprocess_input: the frame after the one-hot block
ServingEncoded(m, df) ==
    LET nominal_encoded == EncoderTransform(m.onehot_encoder, SelectCols(df, EncoderInputCols(m)))
        nominal_feature_names == GetFeatureNamesOut(m.onehot_encoder, m.nominal_variables)
        nominal_df == FrameOf(nominal_encoded.val, nominal_feature_names.val)
        rest == DropCols(df, Range(m.nominal_variables) \cup Range(m.ordinal_variables))
    IN  IF ~(m.onehot_encoder.present /\ m.nominal_variables # <<>>) THEN Ok(df)
        ELSE IF ~nominal_encoded.ok THEN Raise(nominal_encoded.err, NoFrame)
        ELSE IF ~nominal_feature_names.ok THEN Raise(nominal_feature_names.err, NoFrame)
        ELSE Ok(ConcatCols(rest, nominal_df))

\* preprocess_input: the array handed to the model, or the raise
preprocess_input(m, input_data) ==
    LET df == MapOrdinalInPlace(input_data, m.ordinal_variables)
        enc == ServingEncoded(m, df)
        X_pca == PcaTransform(m.pca_model, Values(enc.val))
    IN  IF ~enc.ok THEN Raise(enc.err, <<>>)
        ELSE IF m.pca_model.present
        THEN (IF X_pca.ok THEN X_pca ELSE Raise(X_pca.err, <<>>))
        ELSE Ok(Values(enc.val))

\* load_artifacts, the registry attempt: the first registered model, its
\* latest version, loaded from the version's source
LoadFromRegistry(st) ==
    LET registered_models == search_registered_models(st)
        model_name == registered_models[1]
        latest == get_latest_versions(st, model_name)
        latest_version == latest[1]
        loaded == ArtifactAt(st, latest_version.run, latest_version.path)
    IN  IF registered_models = <<>>
        THEN Raise(Error("ValueError", "No registered models found in MLflow"), None)
        ELSE IF latest = <<>>
        THEN Raise(Error("IndexError", "list index out of range"), None)
        ELSE IF ~loaded.ok THEN loaded
        ELSE Ok([present |-> TRUE, run |-> loaded.val.run, run_name |-> loaded.val.run_name,
                 registry_name |-> model_name, version |-> latest_version.version])

\* load_artifacts, the fallback: runs:/<latest run of the experiment>/model
LoadFromLatestRun(st, experiment) ==
    LET runs == RunsOf(st, experiment)
        run_id == runs[Len(runs)]
        loaded == ArtifactAt(st, run_id, "model")
    IN  IF experiment \notin st.experiments
        THEN Raise(Error("ValueError", "Experiment not found"), None)
        ELSE IF runs = <<>>
        THEN Raise(Error("ValueError", "No runs found in experiment"), None)
        ELSE IF ~loaded.ok THEN loaded
        ELSE Ok([present |-> TRUE, run |-> run_id, run_name |-> loaded.val.run_name,
                 registry_name |-> "", version |-> 0])

\* load_artifacts, model part: the registry first, then the latest run
LoadModel(st, experiment) ==
    IF LoadFromRegistry(st).ok THEN LoadFromRegistry(st)
    ELSE LoadFromLatestRun(st, experiment)

\* mutant of load_artifacts: the model is loaded before the preprocessors
load_artifacts_model_first(m, files, st, experiment) ==
    LET model == LoadModel(st, experiment)
    IN  IF ~model.ok THEN Raise(model.err, m)
        ELSE IF ~files.encoder.present
        THEN Raise(Error("FileNotFoundError", "Encoder not found"),
                   [m EXCEPT !.model = model.val])
        ELSE IF ~files.pca.present
        THEN Raise(Error("FileNotFoundError", "PCA model not found"),
                   [m EXCEPT !.model = model.val, !.onehot_encoder = files.encoder])
        ELSE Ok([m EXCEPT !.onehot_encoder = files.encoder, !.pca_model = files.pca,
                          !.model = model.val])

\* load_artifacts: what it leaves in the predictor, and whether it raised
load_artifacts(m, files, st, experiment) ==
    LET model == LoadModel(st, experiment)
    IN  IF ~files.encoder.present
        THEN Raise(Error("FileNotFoundError", "Encoder not found"), m)
        ELSE IF ~files.pca.present
        THEN Raise(Error("FileNotFoundError", "PCA model not found"),
                   [m EXCEPT !.onehot_encoder = files.encoder])
        ELSE IF ~model.ok
        THEN Raise(model.err,
                   [m EXCEPT !.onehot_encoder = files.encoder, !.pca_model = files.pca])
        ELSE Ok([m EXCEPT !.onehot_encoder = files.encoder, !.pca_model = files.pca,
                          !.model = model.val])

\* mutant of PredictionLabels: the two upper levels change places
PredictionLabelsSwapped == <<"AVERAGE", "GOOD", "EXCELLENT", "VG">>

\* ModelPredictor.prediction_mapping
PredictionLabels == <<"AVERAGE", "GOOD", "VG", "EXCELLENT">>

prediction_mapping(k) ==
    IF k \in 0..(Len(PredictionLabels) - 1) THEN Ok(PredictionLabels[k + 1])
    ELSE Raise(Error("KeyError", "prediction_mapping"), "")

Max(a, b) == IF a >= b THEN a ELSE b

\* mutant of ClipToRange: the class is used as rounded
ClipOmitted(k) == k

\* max(0, min(3, y_pred_class))
ClipToRange(k) == Max(0, Min(3, k))

NoResponse == [prediction |-> "", prediction_numeric |-> 0]

\* ModelPredictor.predict, with y_pred the output of model.predict in halves
predict(m, input_data, y_pred) ==
    LET X_processed == preprocess_input(m, input_data)
        y_pred_class == ClipToRange(Rint(y_pred))
        prediction_label == prediction_mapping(y_pred_class)
    IN  IF ~m.model.present
        THEN Raise(Error("ValueError", "Model not loaded. Call load_artifacts() first."),
                   NoResponse)
        ELSE IF ~X_processed.ok THEN Raise(X_processed.err, NoResponse)
        ELSE IF ~prediction_label.ok THEN Raise(prediction_label.err, NoResponse)
        ELSE Ok([prediction |-> prediction_label.val, prediction_numeric |-> y_pred_class])

NewPredictor ==
    [model |-> None,
     onehot_encoder |-> None,
     pca_model |-> None,
     nominal_variables |-> ServingNominal,
     ordinal_variables |-> ServingOrdinal]

(***************************************************************************)
(* Inputs of the consumers.                                                *)
(***************************************************************************)
\* a level no column shows in the training table
UnseenLevel == LevelNames[NumLevels + 1]

\* how an input row deviates from row k of the training table
Deviations ==
    {[kind |-> "none", col |-> ""]}
    \cup {[kind |-> "unseen", col |-> c] : c \in Range(DeclaredNominal)}
    \cup {[kind |-> "missing", col |-> c] : c \in Range(DeclaredNominal) \cup Range(DeclaredOrdinal)}
    \cup {[kind |-> "extra", col |-> "Extra"]}
    \cup {[kind |-> "badord", col |-> c] : c \in Range(DeclaredOrdinal)}

Deviate(df, dev) ==
    CASE dev.kind = "none" -> df
      [] dev.kind = "unseen" ->
            IF HasCol(df, dev.col) THEN SetCol(df, dev.col, LAMBDA row : Str(UnseenLevel)) ELSE df
      [] dev.kind = "missing" ->
            IF HasCol(df, dev.col) THEN DropCols(df, {dev.col}) ELSE df
      [] dev.kind = "extra" -> SetCol(df, dev.col, LAMBDA row : Str("x"))
      [] dev.kind = "badord" ->
            IF HasCol(df, dev.col) THEN SetCol(df, dev.col, LAMBDA row : Str("BAD")) ELSE df

\* a one-row input frame of the inference pipeline
InputRow(k, dev, with_target) ==
    LET base == Frame(CsvColumns, <<TableRow(k)>>)
    IN  Deviate(IF with_target THEN base ELSE DropCols(base, {target_variable}), dev)

\* a request of the serving path
StudentInput(k, dev) ==
    Deviate(SelectCols(Frame(CsvColumns, <<TableRow(k)>>), StudentInputFields), dev)

ServingDeviations ==
    {d \in Deviations : d.kind \in {"none", "unseen", "badord"}
                        /\ (d.kind = "none" \/ d.col \in Range(StudentInputFields))}

\* the ordinal_variables lists a caller constructs the pipeline with
CallerOrdinalLists == {<<>>, <<"Class_X_Percentage">>, DeclaredOrdinal}

\* the nominal_variables lists a caller constructs the pipeline with
CallerNominalLists == {FallbackNominal, <<"Gender", "Caste">>, <<"Caste", "coaching">>}

\* artifacts fit elsewhere on a bare array (no feature_names_in_) and left at
\* the artifact paths before the run
ForeignEncoder ==
    [present |-> TRUE,
     has_feature_names_in |-> FALSE,
     feature_names_in_ |-> <<>>,
     n_features_in_ |-> 2,
     categories_ |-> <<<<"L1", "L2">>, <<"L1", "L2">>>>,
     origin |-> "foreign"]

ForeignPca ==
    [present |-> TRUE,
     has_n_features_in |-> TRUE,
     n_features_in_ |-> 2,
     n_samples |-> 2,
     n_components_ |-> 2,
     colsum |-> <<1, 1>>,
     fit_columns |-> <<>>,
     origin |-> "foreign"]


(***************************************************************************)
(* The consumers' actions.  A behaviour follows one consumer process: the  *)
(* inference pipeline or the serving process, started after the run ended. *)
(***************************************************************************)
\* the result slot of a call that was not made
NotCalled == Raise(Error("", "not called"), NoFrame)

\* pc = "absent": no FeatureBuilder run in this behaviour; pc = "skipped":
\* the features of an earlier run exist and the run is skipped
RunEnded == pc \in {"saved", "failed", "absent", "skipped"}

\* FeatureInferencePipelineAdjusted(...)
ConstructPipeline ==
    /\ RunEnded
    /\ ~pipeline.present
    /\ ~srv.called /\ ~predictor.onehot_encoder.present /\ ~app.started
    /\ \E nv \in CallerNominalLists, ov \in CallerOrdinalLists :
          LET r == Construct(disk.encoder, disk.pca, nv, ov)
          IN  /\ r.ok
              /\ pipeline' = r.val
    /\ UNCHANGED <<pc, flags, builder, disk, inf, predictor, srv, store, trainer, resp, app, main, fsys, call>>

\* pipeline.transform(df, apply_pca)
Transform ==
    /\ pipeline.present
    /\ ~inf.called
    /\ \E k \in 1..NumLevels, dev \in Deviations, with_target \in BOOLEAN, with_pca \in BOOLEAN :
          LET df == InputRow(k, dev, with_target)
          IN  /\ inf' = [called |-> TRUE, op |-> "transform", input |-> df,
                          with_pca |-> with_pca, out |-> transform(pipeline, df, with_pca),
                          caller_df |-> CallerFrameAfter(pipeline, df),
                          self_before |-> pipeline,
                          again |-> FALSE, out2 |-> NotCalled]
              /\ pipeline' = SelfAfter(pipeline)
    /\ UNCHANGED <<pc, flags, builder, disk, predictor, srv, store, trainer, resp, app, main, fsys, call>>

\* a second pipeline.transform(df, apply_pca) with the frame the caller holds
\* after the first
TransformAgain ==
    /\ pipeline.present
    /\ inf.called /\ inf.op = "transform" /\ ~inf.again
    /\ inf' = [inf EXCEPT !.again = TRUE,
                          !.out2 = transform(pipeline, inf.caller_df, inf.with_pca),
                          !.caller_df = CallerFrameAfter(pipeline, inf.caller_df)]
    /\ pipeline' = SelfAfter(pipeline)
    /\ UNCHANGED <<pc, flags, builder, disk, predictor, srv, store, trainer, resp, app, main, fsys, call>>

Reverse(q) == [i \in DOMAIN q |-> q[Len(q) + 1 - i]]

\* column lists of the frames _force_onehot_dataframe is exercised on: the
\* expected names, permuted, with one missing, with an extra column
ForceInputCols(E) ==
    {E, Reverse(E), <<"Extra_L9">> \o E}
    \cup (IF E = <<>> THEN {} ELSE {Tail(E), Reverse(Tail(E)) \o <<"Extra_L9">>})

\* pipeline._force_onehot_dataframe(onehot_df)
ForceOnehot ==
    /\ pipeline.present
    /\ ~inf.called
    /\ \E cols \in ForceInputCols(pipeline.expected_onehot_names) :
          LET onehot_df == Frame(cols, <<[c \in Range(cols) |-> Num(1)]>>)
          IN  inf' = [called |-> TRUE, op |-> "_force_onehot_dataframe", input |-> onehot_df,
                      with_pca |-> FALSE, out |-> Ok(force_onehot_dataframe(pipeline, onehot_df))]
    /\ UNCHANGED <<pc, flags, builder, disk, pipeline, predictor, srv, store, trainer, resp, app, main, fsys, call>>

NoCall == [called |-> FALSE]

\* before startup_event
NotStarted == [started |-> FALSE, load |-> [ok |-> TRUE, err |-> NoError], health |-> NoCall]

\* no run_training.main is under way
NotRun == [pc |-> "idle", cleaning |-> "none", features |-> "none"]

\* no file of the training pipeline exists; a file is tagged with the number
\* of the fit invocation that wrote it, runs counts the invocations
NoFiles == [cleaned |-> 0, features |-> 0, encoder |-> 0, pca |-> 0, runs |-> 0]

\* the tables the selection methods are called on: the training table, or
\* the table without one of the declared columns
SelectionTables ==
    {TrainingTable}
        \cup {DropCols(TrainingTable, {c}) :
                 c \in Range(DeclaredNominal) \cup Range(DeclaredOrdinal)}

\* builder.select_nominal_features() on its own
SelectNominal ==
    /\ ~call.called
    /\ \E df \in SelectionTables, S \in Profiles, mode \in {"p", "v"} :
          call' = [called |-> TRUE, op |-> "select_nominal_features", df |-> df,
                   stats |-> StatsFor(S, mode),
                   out |-> select_nominal_features(df, DeclaredNominal, StatsFor(S, mode))]
    /\ UNCHANGED <<pc, flags, builder, disk, pipeline, inf, predictor, srv, store, trainer, resp, app, main, fsys>>

\* builder.select_ordinal_features() on its own
SelectOrdinal ==
    /\ ~call.called
    /\ \E df \in SelectionTables, stats \in [Range(DeclaredOrdinal) -> OrdinalStats] :
          call' = [called |-> TRUE, op |-> "select_ordinal_features", df |-> df,
                   stats |-> stats,
                   out |-> select_ordinal_features(df, DeclaredOrdinal, stats)]
    /\ UNCHANGED <<pc, flags, builder, disk, pipeline, inf, predictor, srv, store, trainer, resp, app, main, fsys>>

\* the frames onehot_encode is called on: the table or its first row alone
\* (one level per column), whole, without one nominal column, or without any
OnehotTables ==
    LET bases == {TrainingTable, Frame(CsvColumns, <<TableRow(1)>>)}
    IN  bases
          \cup {DropCols(b, {c}) : b \in bases, c \in Range(DeclaredNominal)}
          \cup {DropCols(b, Range(DeclaredNominal)) : b \in bases}

\* the nominal_features lists it is called with
OnehotRequests == {<<"Gender", "Caste">>, <<"time">>, DeclaredNominal, <<>>}

\* builder.onehot_encode(nominal_features, drop_original) on its own
OnehotEncode ==
    /\ ~call.called
    /\ \E df \in OnehotTables, nominal_features \in OnehotRequests, drop_original \in BOOLEAN :
          call' = [called |-> TRUE, op |-> "onehot_encode", df |-> df,
                   nominal_features |-> nominal_features,
                   drop_original |-> drop_original,
                   out |-> onehot_encode(df, nominal_features, drop_original)]
    /\ UNCHANGED <<pc, flags, builder, disk, pipeline, inf, predictor, srv, store, trainer, resp, app, main, fsys>>

(***************************************************************************)
(* The steps of the training pipeline (sklearn_like_classes.py).           *)
(***************************************************************************)
\* the step objects run_training.main builds
CleaningStep ==
    [name |-> "cleaning", input_path |-> "raw_data", output_path |-> "interim_data"]
FeatureStep ==
    [name |-> "features", input_path |-> "interim_data", output_path |-> "processed_data"]

\* DataCleaningStep.transform, FeatureBuildingStep.transform
step_transform(step) == step.output_path

\* where DataCleaner can raise: reading the raw file, writing the cleaned one
CleaningFaults == {"ok", "load_data", "save_cleaned_data"}

\* mutant of DataCleaningStep_fit: an existing output is skipped even with force
DataCleaningStep_fit_ignores_force(fs, id, force, fault) ==
    IF fs.cleaned # 0
    THEN [ok |-> TRUE, err |-> NoError, ran |-> FALSE, fsys |-> fs]
    ELSE IF fault # "ok"
    THEN [ok |-> FALSE, err |-> Error("Exception", fault), ran |-> TRUE, fsys |-> fs]
    ELSE [ok |-> TRUE, err |-> NoError, ran |-> TRUE, fsys |-> [fs EXCEPT !.cleaned = id]]

\* DataCleaningStep.fit, invocation number id
DataCleaningStep_fit(fs, id, force, fault) ==
    IF fs.cleaned # 0 /\ ~force
    THEN [ok |-> TRUE, err |-> NoError, ran |-> FALSE, fsys |-> fs]
    ELSE IF fault # "ok"
    THEN [ok |-> FALSE, err |-> Error("Exception", fault), ran |-> TRUE, fsys |-> fs]
    ELSE [ok |-> TRUE, err |-> NoError, ran |-> TRUE, fsys |-> [fs EXCEPT !.cleaned = id]]

\* FeatureBuilder.run_pipeline with the default arguments, as
\* FeatureBuildingStep.fit calls it, on the cleaned table
FB_run_pipeline(stats) ==
    LET b1 == [NewBuilder EXCEPT !.df = TrainingTable]
        b2 == SelectionBlock(b1, stats)
        b3 == [b2 EXCEPT !.df = encode_ordinal_target(@)]
        b4 == IF b3.nominal_variables # <<>> THEN EncodingBlock(b3) ELSE b3
        r == FB_apply_pca(b4.df)
    IN  IF r.ok
        THEN Ok([b4 EXCEPT !.df = r.val.df, !.pca_model = r.val.pca_model])
        ELSE Raise(r.err, b4)

\* the files save_artifacts has written when it returns or raises at io
ArtifactsWritten(b, io) ==
    [encoder |-> b.onehot_encoder.present /\ io \in {"ok", "pca_dump"},
     pca |-> b.pca_model.present /\ io = "ok"]

\* the fault io can happen: a dump raises only where there is something to dump
Applies(b, io) ==
    /\ io = "encoder_dump" => b.onehot_encoder.present
    /\ io = "pca_dump" => b.pca_model.present

\* FeatureBuildingStep.fit, invocation number id: the skip, or a FeatureBuilder
\* run, of outcome r, followed by save_features and save_artifacts
FeatureBuildingStep_fit(d, fs, id, force, r, io_f, io_a) ==
    LET b == r.val
        w == ArtifactsWritten(b, io_a)
        d1 == [d EXCEPT !.features = [present |-> TRUE, df |-> b.df]]
        fs1 == [fs EXCEPT !.features = id]
        d2 == [d1 EXCEPT !.encoder = IF w.encoder THEN b.onehot_encoder ELSE @,
                         !.pca = IF w.pca THEN b.pca_model ELSE @]
        fs2 == [fs1 EXCEPT !.encoder = IF w.encoder THEN id ELSE @,
                           !.pca = IF w.pca THEN id ELSE @]
    IN  IF fs.features # 0 /\ ~force
        THEN [ok |-> TRUE, err |-> NoError, ran |-> FALSE, disk |-> d, fsys |-> fs]
        ELSE IF fs.cleaned = 0
        THEN [ok |-> FALSE, err |-> Error("FileNotFoundError", "Input file not found"),
              ran |-> TRUE, disk |-> d, fsys |-> fs]
        ELSE IF ~r.ok
        THEN [ok |-> FALSE, err |-> r.err, ran |-> TRUE, disk |-> d, fsys |-> fs]
        ELSE IF io_f # "ok"
        THEN [ok |-> FALSE, err |-> Error("OSError", io_f), ran |-> TRUE,
              disk |-> d, fsys |-> fs]
        ELSE IF io_a # "ok" /\ Applies(b, io_a)
        THEN [ok |-> FALSE, err |-> Error("OSError", io_a), ran |-> TRUE,
              disk |-> d2, fsys |-> fs2]
        ELSE [ok |-> TRUE, err |-> NoError, ran |-> TRUE, disk |-> d2, fsys |-> fs2]

\* the selections a FeatureBuilder run of a step ends with: the serving
\* columns kept, or every nominal column rejected
FitProfiles == {Range(ServingNominal), {}}

\* builder.run_pipeline of the step for each of them
StepRuns == [S \in FitProfiles |-> FB_run_pipeline(StatsFor(S, "p"))]

\* what a fit call leaves for its caller to see
FitCall(step, force, r) ==
    [called |-> TRUE, op |-> "fit", step |-> step, force |-> force,
     before |-> fsys, disk_before |-> disk,
     ok |-> r.ok, err |-> r.err, ran |-> r.ran,
     returned |-> IF r.ok THEN step ELSE None,
     transform |-> step_transform(step)]

\* DataCleaningStep(force=...).fit() then transform(), called on its own
CleaningFit ==
    /\ fsys.runs < MaxFits
    /\ \E force \in BOOLEAN, fault \in CleaningFaults :
          LET id == fsys.runs + 1
              r == DataCleaningStep_fit([fsys EXCEPT !.runs = id], id, force, fault)
          IN  /\ fsys' = r.fsys
              /\ call' = FitCall(CleaningStep, force, r)
    /\ UNCHANGED <<pc, flags, builder, disk, pipeline, inf, predictor, srv, store, trainer, resp, app, main>>

\* FeatureBuildingStep(force=...).fit() then transform(), called on its own
FeatureFit ==
    /\ fsys.runs < MaxFits
    /\ \E force \in BOOLEAN, S \in FitProfiles, io_f \in SaveFeaturesIo, io_a \in SaveArtifactsIo :
          LET id == fsys.runs + 1
              r == FeatureBuildingStep_fit(disk, [fsys EXCEPT !.runs = id], id, force,
                                           StepRuns[S], io_f, io_a)
          IN  /\ fsys' = r.fsys
              /\ disk' = r.disk
              /\ call' = FitCall(FeatureStep, force, r)
    /\ UNCHANGED <<pc, flags, builder, pipeline, inf, predictor, srv, store, trainer, resp, app, main>>

\* run_training.main enters at the pipeline of the two steps
MainStarted == [pc |-> "cleaning", cleaning |-> "none", features |-> "none"]

\* except Exception: what the handlers of main catch
IsException(err) == err.type \notin {"KeyboardInterrupt", "SystemExit", "GeneratorExit"}

\* mutant of MainAfter: main goes on after a stage raised
MainAfterIgnoresFailure(r, next) == next

\* where main is after a stage: on, or out through the handler that logs
\* the exception and returns
MainAfter(r, next) ==
    IF r.ok THEN next
    ELSE IF IsException(r.err) THEN "returned"
    ELSE "raised"

\* run_training.main, pipeline.fit: the cleaning step
MainCleaning ==
    /\ main.pc = "cleaning"
    /\ \E force \in BOOLEAN, fault \in CleaningFaults :
          LET id == fsys.runs + 1
              r == DataCleaningStep_fit([fsys EXCEPT !.runs = id], id, force, fault)
          IN  /\ fsys' = r.fsys
              /\ main' = [main EXCEPT !.pc = MainAfter(r, "features"),
                                      !.cleaning = IF r.ok THEN "ok" ELSE "raised"]
    /\ UNCHANGED <<pc, flags, builder, disk, pipeline, inf, predictor, srv, store, trainer, resp, app, call>>

\* run_training.main, pipeline.fit: the feature step
MainFeatures ==
    /\ main.pc = "features"
    /\ \E force \in BOOLEAN, S \in FitProfiles, io_f \in SaveFeaturesIo, io_a \in SaveArtifactsIo :
          LET id == fsys.runs + 1
              r == FeatureBuildingStep_fit(disk, [fsys EXCEPT !.runs = id], id, force,
                                           StepRuns[S], io_f, io_a)
          IN  /\ fsys' = r.fsys
              /\ disk' = r.disk
              /\ main' = [main EXCEPT !.pc = MainAfter(r, "training"),
                                      !.features = IF r.ok THEN "ok" ELSE "raised"]
    /\ UNCHANGED <<pc, flags, builder, pipeline, inf, predictor, srv, store, trainer, resp, app, call>>

\* run_training.main returns: after the registration, or from the handler of
\* the training block
MainReturn ==
    /\ main.pc = "training"
    /\ trainer.pc \in {"failed", "done", "register_failed"}
    /\ main' = [main EXCEPT !.pc = "returned"]
    /\ UNCHANGED <<pc, flags, builder, disk, pipeline, inf, predictor, srv, store, trainer, resp, app, fsys, call>>

\* the label tables, each as its module writes it
\* FeatureBuilder.target_mapping
BuilderTargetMapping ==
    ("EXCELLENT" :> 3) @@ ("VG" :> 2) @@ ("GOOD" :> 1) @@ ("AVERAGE" :> 0)

\* FeatureBuilder.ordinal_mapping
BuilderOrdinalMapping ==
    ("Class_X_Percentage" :>
        (("EXCELLENT" :> 3) @@ ("VG" :> 2) @@ ("GOOD" :> 1) @@ ("AVERAGE" :> 0)))
    @@ ("Class_XII_Percentage" :>
        (("EXCELLENT" :> 3) @@ ("VG" :> 2) @@ ("GOOD" :> 1) @@ ("AVERAGE" :> 0)))

\* FeatureInferencePipelineAdjusted.target_mapping
InferenceTargetMapping ==
    ("EXCELLENT" :> 3) @@ ("VG" :> 2) @@ ("GOOD" :> 1) @@ ("AVERAGE" :> 0)

\* the ordinal_mapping calculate_features.main constructs the pipeline with
InferenceOrdinalMapping ==
    ("Class_X_Percentage" :>
        (("EXCELLENT" :> 3) @@ ("VG" :> 2) @@ ("GOOD" :> 1) @@ ("AVERAGE" :> 0)))
    @@ ("Class_XII_Percentage" :>
        (("EXCELLENT" :> 3) @@ ("VG" :> 2) @@ ("GOOD" :> 1) @@ ("AVERAGE" :> 0)))

\* ModelPredictor.ordinal_mapping
ServingOrdinalMapping ==
    ("Class_X_Percentage" :>
        (("EXCELLENT" :> 3) @@ ("VG" :> 2) @@ ("GOOD" :> 1) @@ ("AVERAGE" :> 0)))
    @@ ("Class_XII_Percentage" :>
        (("EXCELLENT" :> 3) @@ ("VG" :> 2) @@ ("GOOD" :> 1) @@ ("AVERAGE" :> 0)))

\* Series.map(mapping) on one cell
MapThrough(cell, mapping) ==
    IF cell.t = "str" /\ cell.s \in DOMAIN mapping THEN Num(mapping[cell.s]) ELSE NaN

\* prediction_mapping[code] for an encoded cell
Decode(cell) ==
    IF cell = NaN THEN Raise(Error("KeyError", "prediction_mapping"), "")
    ELSE prediction_mapping(cell.n)

\* the cells of a target column: the four labels and one that is none of them
TargetCells == {Str(l) : l \in Range(LabelNames) \cup {"Excellent"}}

\* a target column goes through target_mapping as in training, and each code
\* back through prediction_mapping as in serving
RoundTrip ==
    /\ ~call.called
    /\ \E n \in 1..MaxColumn : \E column \in [1..n -> TargetCells] :
          LET encoded == [i \in 1..n |-> MapThrough(column[i], BuilderTargetMapping)]
          IN  call' = [called |-> TRUE, op |-> "round_trip", column |-> column,
                       encoded |-> encoded,
                       decoded |-> [i \in 1..n |-> Decode(encoded[i])]]
    /\ UNCHANGED <<pc, flags, builder, disk, pipeline, inf, predictor, srv, store, trainer, resp, app, main, fsys>>

\* model_training.experiment_name of config/training.yaml, which api.py and
\* run_training.main both read
ConfiguredExperiment == <<"mlflow-student-performance-experiment">>
ServingExperiment == ExperimentName(ConfiguredExperiment)

\* startup_event: predictor.load_artifacts(), a raise is logged
LoadArtifacts ==
    /\ RunEnded
    /\ trainer.pc \notin {"training", "selected"}
    /\ ~pipeline.present
    /\ ~app.started
    /\ LET r == load_artifacts(predictor, disk, store, ServingExperiment)
       IN  /\ predictor' = r.val
           /\ app' = [started |-> TRUE, load |-> [ok |-> r.ok, err |-> r.err],
                      health |-> NoCall]
    /\ UNCHANGED <<pc, flags, builder, disk, pipeline, inf, srv, store, trainer, resp, main, fsys, call>>

\* GET /health
Health ==
    /\ app.started
    /\ ~app.health.called
    /\ app' = [app EXCEPT !.health =
                  [called |-> TRUE,
                   status |-> "healthy",
                   model_loaded |-> predictor.model.present,
                   preprocessors_loaded |-> /\ predictor.onehot_encoder.present
                                            /\ predictor.pca_model.present]]
    /\ UNCHANGED <<pc, flags, builder, disk, pipeline, inf, predictor, srv, store, trainer, resp, main, fsys, call>>

\* predictor.preprocess_input(student)
PreprocessInput ==
    /\ predictor.onehot_encoder.present
    /\ ~srv.called
    /\ \E k \in 1..NumLevels, dev \in ServingDeviations :
          LET input_data == StudentInput(k, dev)
          IN  srv' = [called |-> TRUE, input |-> input_data,
                      out |-> preprocess_input(predictor, input_data)]
    /\ UNCHANGED <<pc, flags, builder, disk, pipeline, inf, predictor, store, trainer, resp, app, main, fsys, call>>

\* POST /predict: predictor.predict(student), an exception becomes HTTP 500;
\* the regressor answers only if the model is loaded and the preprocessing
\* went through
Predict ==
    /\ app.started
    /\ ~resp.called
    /\ ~srv.called
    /\ trainer.pc \notin {"training", "selected"}
    /\ \E k \in 1..NumLevels, dev \in ServingDeviations :
          LET input_data == StudentInput(k, dev)
              answers == /\ predictor.model.present
                         /\ preprocess_input(predictor, input_data).ok
          IN  \E y_pred \in (IF answers THEN RegressorOutputs ELSE {0}) :
                 resp' = [called |-> TRUE, input |-> input_data, y_pred |-> y_pred,
                          answers |-> answers,
                          out |-> predict(predictor, input_data, y_pred),
                          status_code |-> IF predict(predictor, input_data, y_pred).ok
                                          THEN "200" ELSE "500"]
    /\ UNCHANGED <<pc, flags, builder, disk, pipeline, inf, predictor, srv, store, trainer, app, main, fsys, call>>

NoRunFlags == [feature_selection |-> TRUE, apply_encoding |-> TRUE, apply_pca |-> TRUE]

Init ==
    /\ \/ /\ pc = "init"
          /\ flags \in [feature_selection : BOOLEAN, apply_encoding : BOOLEAN,
                        apply_pca : BOOLEAN]
          /\ disk = [features |-> None, encoder |-> None, pca |-> None]
       \/ /\ pc = "absent"
          /\ flags = NoRunFlags
          /\ disk = [features |-> None, encoder |-> ForeignEncoder, pca |-> ForeignPca]
    /\ builder = NewBuilder
    /\ pipeline = None
    /\ inf = NoCall
    /\ predictor = NewPredictor
    /\ srv = NoCall
    /\ store = EmptyStore
    /\ trainer = NewTrainer
    /\ resp = NoCall
    /\ app = NotStarted
    /\ main = NotRun
    /\ fsys = NoFiles
    /\ call = NoCall

Next ==
    \/ LoadData
    \/ FeatureSelection
    \/ EncodeTarget
    \/ OneHotEncoding
    \/ ApplyPca
    \/ SaveFeatures
    \/ SaveArtifacts
    \/ ConstructPipeline
    \/ Transform
    \/ ForceOnehot
    \/ LoadArtifacts
    \/ PreprocessInput

Spec == Init /\ [][Next]_vars

\* the FeatureBuilder after an earlier complete run with the default
\* arguments whose selection kept the columns S
PriorBuilder(S) ==
    LET b1 == [NewBuilder EXCEPT !.df = TrainingTable]
        b2 == SelectionBlock(b1, StatsFor(S, "p"))
        b3 == [b2 EXCEPT !.df = encode_ordinal_target(@)]
        b4 == EncodingBlock(b3)
        r == FB_apply_pca(b4.df)
    IN  [b4 EXCEPT !.df = r.val.df, !.pca_model = r.val.pca_model]

\* the files that run left
PriorDisk(S) ==
    LET b == PriorBuilder(S)
    IN  [features |-> [present |-> TRUE, df |-> b.df],
         encoder |-> b.onehot_encoder,
         pca |-> b.pca_model]

PriorSelections == {Range(ServingNominal), {"Gender"}}

\* the inference pipeline over artifacts already on disk: calculate_features.main
InitReplay ==
    /\ \/ /\ pc = "skipped"
          /\ \E S \in PriorSelections : disk = PriorDisk(S)
       \/ /\ pc = "absent"
          /\ disk = [features |-> None, encoder |-> ForeignEncoder, pca |-> ForeignPca]
    /\ flags = NoRunFlags
    /\ builder = NewBuilder
    /\ pipeline = None
    /\ inf = NoCall
    /\ predictor = NewPredictor
    /\ srv = NoCall
    /\ store = EmptyStore
    /\ trainer = NewTrainer
    /\ resp = NoCall
    /\ app = NotStarted
    /\ main = NotRun
    /\ fsys = NoFiles
    /\ call = NoCall

NextReplay ==
    \/ ConstructPipeline
    \/ Transform
    \/ TransformAgain

SpecReplay == InitReplay /\ [][NextReplay]_vars

\* the sequences of distinct candidate names
NameOrders ==
    {q \in UNION {[1..n -> Range(Candidates)] : n \in 0..Len(Candidates)} :
        \A i, j \in DOMAIN q : i # j => q[i] # q[j]}

\* model_metrics tables: any candidates in any insertion order, any values
MetricTables ==
    UNION {{[i \in DOMAIN q |-> [name |-> q[i], rmse |-> v[i].rmse, qwk |-> v[i].qwk]] :
               v \in [DOMAIN q -> [rmse : MetricValues, qwk : MetricValues]]} :
           q \in NameOrders}

\* get_best_model as a function of model_metrics
InitBest ==
    /\ pc = "absent"
    /\ disk = [features |-> None, encoder |-> None, pca |-> None]
    /\ store = EmptyStore
    /\ flags = NoRunFlags
    /\ builder = NewBuilder
    /\ pipeline = None
    /\ inf = NoCall
    /\ predictor = NewPredictor
    /\ srv = NoCall
    /\ \E mm \in MetricTables :
          trainer = [NewTrainer EXCEPT !.pc = "trained", !.model_metrics = mm]
    /\ resp = NoCall
    /\ app = NotStarted
    /\ main = NotRun
    /\ fsys = NoFiles
    /\ call = NoCall

NextBest == GetBestModel

SpecBest == InitBest /\ [][NextBest]_vars

\* the stores a training run starts from
PriorStores ==
    {EmptyStore,
     StoreAfterRun(EmptyStore, ConfiguredExperiment, "all", "XGBoost"),
     StoreAfterRun(EmptyStore, ConfiguredExperiment, "xgboost", "XGBoost")}

\* a training run over the features of an earlier run, then the serving
\* process starts: run_training.main with the feature step skipped, api.py
InitRegistry ==
    /\ pc = "skipped"
    /\ disk = PriorDisk(Range(ServingNominal))
    /\ store \in PriorStores
    /\ flags = NoRunFlags
    /\ builder = NewBuilder
    /\ pipeline = None
    /\ inf = NoCall
    /\ predictor = NewPredictor
    /\ srv = NoCall
    /\ trainer = NewTrainer
    /\ resp = NoCall
    /\ app = NotStarted
    /\ main = NotRun
    /\ fsys = NoFiles
    /\ call = NoCall

NextRegistry ==
    \/ StartTraining
    \/ TrainCandidate
    \/ SelectBest
    \/ RegisterBest
    \/ RegisterDirect
    \/ LoadArtifacts

SpecRegistry == InitRegistry /\ [][NextRegistry]_vars

\* the serving process over the artifacts and the store of earlier runs: api.py
ServingDisks ==
    LET d == PriorDisk(Range(ServingNominal))
    IN  {d, [d EXCEPT !.pca = None], [d EXCEPT !.encoder = None]}

InitServe ==
    /\ pc = "skipped"
    /\ disk \in ServingDisks
    /\ store \in PriorStores
    /\ flags = NoRunFlags
    /\ builder = NewBuilder
    /\ pipeline = None
    /\ inf = NoCall
    /\ predictor = NewPredictor
    /\ srv = NoCall
    /\ trainer = NewTrainer
    /\ resp = NoCall
    /\ app = NotStarted
    /\ main = NotRun
    /\ fsys = NoFiles
    /\ call = NoCall

NextServe ==
    \/ LoadArtifacts
    \/ Health
    \/ Predict

SpecServe == InitServe /\ [][NextServe]_vars

\* nothing has run yet: no file, no object beyond its construction
InitIdle ==
    /\ pc = "skipped"
    /\ flags = NoRunFlags
    /\ builder = NewBuilder
    /\ disk = [features |-> None, encoder |-> None, pca |-> None]
    /\ pipeline = None
    /\ inf = NoCall
    /\ predictor = NewPredictor
    /\ srv = NoCall
    /\ store = EmptyStore
    /\ trainer = NewTrainer
    /\ resp = NoCall
    /\ app = NotStarted
    /\ main = NotRun
    /\ fsys = NoFiles
    /\ call = NoCall

\* the selection and encoding methods of a FeatureBuilder, each called on
\* its own on a loaded table
NextSelect ==
    \/ SelectNominal
    \/ SelectOrdinal
    \/ OnehotEncode

SpecSelect == InitIdle /\ [][NextSelect]_vars

\* the files an earlier complete run of the pipeline left
PriorFiles == [cleaned |-> 1, features |-> 1, encoder |-> 1, pca |-> 1, runs |-> 1]

\* run_training.main from its first stage to its return, on a machine with
\* no file yet or with the files of an earlier run
InitMain ==
    /\ pc = "skipped"
    /\ flags = NoRunFlags
    /\ builder = NewBuilder
    /\ \/ /\ disk = [features |-> None, encoder |-> None, pca |-> None]
          /\ fsys = NoFiles
       \/ /\ disk = PriorDisk(Range(ServingNominal))
          /\ fsys = PriorFiles
    /\ pipeline = None
    /\ inf = NoCall
    /\ predictor = NewPredictor
    /\ srv = NoCall
    /\ store = EmptyStore
    /\ trainer = NewTrainer
    /\ resp = NoCall
    /\ app = NotStarted
    /\ main = MainStarted
    /\ call = NoCall

NextMain ==
    \/ MainCleaning
    \/ MainFeatures
    \/ StartTraining
    \/ TrainCandidate
    \/ SelectBest
    \/ RegisterBest
    \/ MainReturn

SpecMain == InitMain /\ [][NextMain]_vars

\* the two file-producing steps, fit any number of times in any order
NextSteps ==
    \/ CleaningFit
    \/ FeatureFit

SpecSteps == InitIdle /\ [][NextSteps]_vars

\* target labels from training to serving
NextLabels == RoundTrip

SpecLabels == InitIdle /\ [][NextLabels]_vars

\* one FeatureBuilder run on its own: build_features.main
InitBuild == Init /\ pc = "init"

NextBuild ==
    \/ LoadData
    \/ FeatureSelection
    \/ EncodeTarget
    \/ OneHotEncoding
    \/ ApplyPca
    \/ SaveFeatures
    \/ SaveArtifacts

SpecBuild == InitBuild /\ [][NextBuild]_vars

(***************************************************************************)
(* Properties.                                                             *)
(***************************************************************************)
IsTransform == inf.called /\ inf.op = "transform"

\* the run that persisted the artifacts had selection, encoding and PCA enabled
FullRunSaved ==
    /\ pc = "saved"
    /\ flags.feature_selection /\ flags.apply_encoding /\ flags.apply_pca

\* the pipeline as calculate_features.main constructs it, over artifacts a
\* FeatureBuilder run persisted
MainConfigured ==
    /\ pipeline.present
    /\ pipeline.encoder.origin = "FeatureBuilder"
    /\ pipeline.pca.origin = "FeatureBuilder"
    /\ pipeline.ordinal_variables = DeclaredOrdinal

PcVector(row, k) == [j \in 1..k |-> row[PcColumns(k)[j]]]

\* C1: for artifacts persisted by a completed FeatureBuilder run with selection,
\* encoding and PCA enabled, transform(row, apply_pca=True) of any row of the
\* training table succeeds, hands the reducer the columns the reducer was fit
\* on, in fit order, and returns the reduced vector the training run computed.
C1_TrainingInferenceParity ==
    \A k \in 1..NumLevels, t \in BOOLEAN :
        (/\ IsTransform /\ inf.with_pca /\ FullRunSaved
         /\ MainConfigured
         /\ inf.input = InputRow(k, [kind |-> "none", col |-> ""], t))
        => /\ inf.out.ok
           /\ AllPcaFeatures(pipeline) = pipeline.pca.fit_columns
           /\ PcVector(inf.out.val.rows[1], pipeline.pca.n_components_)
                = PcVector(disk.features.df.rows[k], pipeline.pca.n_components_)

\* C2: with encoding and PCA enabled, the matrix the reducer is fit on holds
\* the one-hot columns and the encoded ordinal columns, and not the target.
C2_PcaFitMatrix ==
    (/\ pc \in {"reduced", "features_saved", "saved"}
     /\ flags.apply_encoding /\ flags.apply_pca
     /\ builder.onehot_encoder.present /\ builder.pca_model.present)
    => LET cols == Range(builder.pca_model.fit_columns)
       IN  /\ Range(GetFeatureNamesOut(builder.onehot_encoder,
                                       builder.onehot_encoder.feature_names_in_).val)
                \subseteq cols
           /\ \A o \in Range(DeclaredOrdinal) : o \in cols \/ EncodedName(o) \in cols
           /\ target_variable \notin cols
           /\ "Performance_encoded" \notin cols

\* C3: whatever the training-time selection kept, preprocess_input hands the
\* loaded encoder exactly the columns it was fit on, in fit order, and hands
\* the loaded reducer a vector of the reducer's fit-time width.
C3_ServingReplaysTraining ==
    (/\ srv.called /\ pc = "saved" /\ flags.feature_selection
     /\ predictor.onehot_encoder.origin = "FeatureBuilder")
    => /\ EncoderInputCols(predictor) = predictor.onehot_encoder.feature_names_in_
       /\ LET enc == ServingEncoded(predictor,
                        MapOrdinalInPlace(srv.input, predictor.ordinal_variables))
          IN  (predictor.pca_model.present /\ enc.ok)
                  => Len(enc.val.cols) = predictor.pca_model.n_features_in_

\* the input frame as the feature steps of transform see it
FeatureInput(df) == DropCols(df, {target_variable} \cap Range(df.cols))

\* C4: with reduction requested, an assembled feature vector of M columns
\* against a reducer fit on N # M columns fails with an error naming N, M and
\* the expected column list, and nothing is returned; with M = N no shape
\* error is raised.
C4_ShapeContract ==
    (/\ IsTransform /\ inf.with_pca
     /\ apply_onehot(pipeline, encode_ordinal(pipeline, FeatureInput(inf.input))).ok)
    => LET N == pipeline.pca.n_features_in_
           assembled == pipeline.expected_onehot_names
                          \o [i \in DOMAIN pipeline.ordinal_variables |->
                                 EncodedName(pipeline.ordinal_variables[i])]
           M == Len(assembled)
       IN  /\ M # N =>
                /\ ~inf.out.ok
                /\ inf.out.err.what = "Shape mismatch for PCA"
                /\ inf.out.err.expected = N
                /\ inf.out.err.got = M
                /\ inf.out.err.names = assembled
                /\ inf.out.val = NoFrame
           /\ M = N => inf.out.err.what # "Shape mismatch for PCA"

C4_Witness ==
    /\ IsTransform /\ inf.with_pca
    /\ ~inf.out.ok
    /\ inf.out.err.what = "Shape mismatch for PCA"
    /\ inf.out.err.expected # inf.out.err.got
    /\ Len(inf.out.err.names) = inf.out.err.got

\* the nominal columns of the fitted vocabulary the input holds an unseen level in
UnseenIn(p, df) ==
    {j \in DOMAIN p.nominal_variables :
        /\ HasCol(df, p.nominal_variables[j])
        /\ df.rows[1][p.nominal_variables[j]].s \notin Range(p.encoder.categories_[j])}

IndicatorNames(p, j) ==
    {p.nominal_variables[j] \o "_" \o l : l \in Range(KeptLevels(p.encoder, j))}

\* C5: a row with a nominal level unseen at fit time is transformed without
\* an exception, and every indicator column of that nominal column is 0.0.
C5_UnseenNominalZeroFill ==
    (/\ IsTransform /\ ~inf.with_pca /\ MainConfigured
     /\ Range(pipeline.nominal_variables) \subseteq Range(inf.input.cols)
     /\ UnseenIn(pipeline, inf.input) # {})
    => /\ inf.out.ok
       /\ \A j \in UnseenIn(pipeline, inf.input) :
             \A c \in IndicatorNames(pipeline, j) : inf.out.val.rows[1][c] = Num(0)

BadOrdinalIn(df) ==
    \E o \in Range(DeclaredOrdinal) :
        HasCol(df, o) /\ df.rows[1][o].s \notin OrdinalLabels

\* C6: an ordinal value outside {EXCELLENT, VG, GOOD, AVERAGE} makes the
\* inference transform (with or without reduction) and the serving
\* preprocess_input raise.
C6_BadOrdinalRaises ==
    /\ (IsTransform /\ MainConfigured /\ BadOrdinalIn(inf.input)) => ~inf.out.ok
    /\ (srv.called /\ predictor.onehot_encoder.origin = "FeatureBuilder"
            /\ BadOrdinalIn(srv.input)) => ~srv.out.ok

SameSchema(p, q) ==
    /\ p.nominal_variables = q.nominal_variables
    /\ p.expected_onehot_names = q.expected_onehot_names

\* C7 as stated: two pipelines built from the same encoder artifact with
\* different caller-supplied nominal_variables have the same nominal_variables
\* and the same expected_onehot_names.
C7_SchemaFromArtifactOnly ==
    pipeline.present =>
        \A nv \in CallerNominalLists :
            LET r == Construct(pipeline.encoder, pipeline.pca, nv, pipeline.ordinal_variables)
            IN  r.ok => SameSchema(r.val, pipeline)

\* C7 amended: for an encoder that carries feature_names_in_, construction
\* succeeds for every caller-supplied list, nominal_variables is the encoder's
\* feature_names_in_ and expected_onehot_names its feature names, whatever the
\* caller supplied.
C7_SchemaFromNamedEncoder ==
    (pipeline.present /\ pipeline.encoder.has_feature_names_in) =>
        /\ pipeline.nominal_variables = pipeline.encoder.feature_names_in_
        /\ \A nv \in CallerNominalLists :
              LET r == Construct(pipeline.encoder, pipeline.pca, nv, pipeline.ordinal_variables)
              IN  r.ok /\ SameSchema(r.val, pipeline)

C7_Witness ==
    /\ pipeline.present
    /\ pipeline.encoder.has_feature_names_in
    /\ pipeline.nominal_variables \notin CallerNominalLists
    /\ pipeline.expected_onehot_names # <<>>

\* C8: after _force_onehot_dataframe the frame holds exactly
\* expected_onehot_names, in that order: an absent expected column is 0.0, a
\* present one keeps its values, any other column is gone; the one-hot part
\* of a transform's output is expected_onehot_names in that order.
C8_ForcedOnehotSchema ==
    /\ (inf.called /\ inf.op = "_force_onehot_dataframe") =>
          /\ inf.out.val.cols = pipeline.expected_onehot_names
          /\ \A c \in Range(pipeline.expected_onehot_names) :
                inf.out.val.rows[1][c] =
                    IF HasCol(inf.input, c) THEN inf.input.rows[1][c] ELSE Num(0)
          /\ DOMAIN inf.out.val.rows[1] = Range(pipeline.expected_onehot_names)
    /\ (IsTransform /\ ~inf.with_pca /\ inf.out.ok) =>
          SelectSeq(inf.out.val.cols, LAMBDA c : c \in Range(pipeline.expected_onehot_names))
              = pipeline.expected_onehot_names

C8_Witness ==
    /\ inf.called /\ inf.op = "_force_onehot_dataframe"
    /\ HasCol(inf.input, "Extra_L9")
    /\ \E c \in Range(pipeline.expected_onehot_names) : ~HasCol(inf.input, c)
    /\ Len(pipeline.expected_onehot_names) >= 2

\* the nominal columns of the fitted vocabulary the input lacks
LackedNominal == SelectSeq(pipeline.nominal_variables, LAMBDA c : ~HasCol(inf.input, c))

\* the input columns that are no column of the cleaned table
ExtraCols(df) == Range(df.cols) \ Range(CsvColumns)

\* the same call on the conforming row: extra columns removed
Conforming(df) == DropCols(df, ExtraCols(df))

\* C9 as stated: a row lacking a nominal column of the fitted vocabulary, or
\* carrying extra columns, is transformed wherever the conforming row is; the
\* one-hot columns of a lacked nominal column are 0.0 and no extra input column
\* is in the output.
C9_MissingAndExtraTolerated ==
    (/\ IsTransform /\ MainConfigured
     /\ LackedNominal # <<>> \/ ExtraCols(inf.input) # {}
     /\ inf.with_pca =>
            ~ShapeMismatch(pipeline.pca.n_features_in_, Len(AllPcaFeatures(pipeline))))
    => /\ inf.out.ok
       /\ ExtraCols(inf.input) \cap Range(inf.out.val.cols) = {}
       /\ ~inf.with_pca =>
             \A j \in DOMAIN pipeline.nominal_variables :
                 ~HasCol(inf.input, pipeline.nominal_variables[j]) =>
                     \A c \in IndicatorNames(pipeline, j) : inf.out.val.rows[1][c] = Num(0)

\* C9 amended: a row lacking a nominal column of the fitted vocabulary makes
\* transform raise a ValueError naming exactly the lacked columns, and only
\* such a row does; extra columns change neither whether transform raises nor
\* its error; with reduction no extra column is in the output, without
\* reduction every extra column passes through unchanged.
C9_MissingRaisesExtraPasses ==
    IsTransform =>
        /\ LackedNominal # <<>> =>
              /\ ~inf.out.ok
              /\ inf.out.err.type = "ValueError"
              /\ inf.out.err.names = LackedNominal
              /\ inf.out.val = NoFrame
        /\ LackedNominal = <<>> => inf.out.err.what # "Input data is missing nominal columns"
        /\ LET r == transform(pipeline, Conforming(inf.input), inf.with_pca)
           IN  /\ r.ok = inf.out.ok
               /\ r.err = inf.out.err
        /\ (inf.out.ok /\ inf.with_pca) =>
              ExtraCols(inf.input) \cap Range(inf.out.val.cols) = {}
        /\ (inf.out.ok /\ ~inf.with_pca) =>
              \A c \in ExtraCols(inf.input) :
                  /\ HasCol(inf.out.val, c)
                  /\ inf.out.val.rows[1][c] = inf.input.rows[1][c]

C9_Witness ==
    /\ IsTransform
    /\ LackedNominal # <<>>
    /\ ~inf.out.ok
    /\ inf.out.err.names = LackedNominal
    /\ Len(pipeline.nominal_variables) < Len(DeclaredNominal)

\* what transform returned, the target column set apart
FeaturePart(r) ==
    [ok |-> r.ok, err |-> r.err,
     val |-> IF r.ok THEN DropCols(r.val, {target_variable} \cap Range(r.val.cols))
             ELSE NoFrame]

\* the inputs that differ from df only in the target: absent, or any label
TargetVariants(df) ==
    {FeatureInput(df)}
    \cup {SetCol(df, target_variable, LAMBDA row : Str(l)) :
             l \in OrdinalLabels \cup {"BAD"}}

\* C10: the feature columns transform returns do not depend on the target's
\* value or presence; a target in the input comes back as the last column,
\* mapped through {AVERAGE: 0, GOOD: 1, VG: 2, EXCELLENT: 3}.
C10_LabelNeverInFeaturePath ==
    IsTransform =>
        /\ \A v \in TargetVariants(inf.input) :
              FeaturePart(transform(pipeline, v, inf.with_pca)) = FeaturePart(inf.out)
        /\ (inf.out.ok /\ HasCol(inf.input, target_variable)) =>
              /\ inf.out.val.cols[Len(inf.out.val.cols)] = target_variable
              /\ inf.out.val.rows[1][target_variable]
                    = MapCell(inf.input.rows[1][target_variable], OrdinalLabels)
        /\ (inf.out.ok /\ ~HasCol(inf.input, target_variable)) =>
              ~HasCol(inf.out.val, target_variable)

C10_Witness ==
    /\ IsTransform /\ ~inf.with_pca
    /\ inf.out.ok
    /\ HasCol(inf.input, target_variable)
    /\ inf.out.val.rows[1][target_variable] = Num(1)
    /\ Len(inf.out.val.cols) > 1

(***************************************************************************)
(* The FeatureBuilder run as a whole.                                      *)
(***************************************************************************)
NothingPersisted ==
    ~disk.features.present /\ ~disk.encoder.present /\ ~disk.pca.present

\* C11: a run in which a stage raised (load, selection, encoding, PCA,
\* save_features or save_artifacts) leaves none of the features table, the
\* encoder file and the PCA file written.
C11_NoPartialArtifacts ==
    pc \in {"failed", "save_failed"} => NothingPersisted

\* the stages of a run, in program order
StageOrder ==
    <<"init", "loaded", "selected", "target_encoded", "encoded", "reduced",
      "features_saved", "saved">>

InMemoryStages == {"init", "loaded", "selected", "target_encoded", "encoded"}
SaveStages == {"reduced", "features_saved"}

\* C12: run_pipeline goes load -> selection -> target encoding -> one-hot
\* encoding -> PCA, each stage once and never back to an earlier one (a raise
\* ends the run); the builder changes only inside run_pipeline and files are
\* written only by save_features and save_artifacts, after it returned.
C12_StagesInOrder ==
    [][/\ pc' # pc =>
            \/ \E i \in 1..(Len(StageOrder) - 1) :
                    pc = StageOrder[i] /\ pc' = StageOrder[i + 1]
            \/ pc \in InMemoryStages /\ pc' = "failed"
            \/ pc \in SaveStages /\ pc' = "save_failed"
       /\ builder' # builder => pc \in InMemoryStages /\ pc' # pc
       /\ disk' # disk => pc \in SaveStages /\ pc' # pc]_vars

C12_Witness ==
    /\ pc = "saved"
    /\ flags = [feature_selection |-> TRUE, apply_encoding |-> TRUE, apply_pca |-> TRUE]
    /\ builder.onehot_encoder.present /\ builder.pca_model.present
    /\ disk.features.present /\ disk.encoder.present /\ disk.pca.present

\* the run is over and no write of the save stage raised
RunOverWithoutIoError == pc \in {"saved", "failed"}

\* C13: a disabled stage freezes the run at the preceding stage.  With
\* apply_pca off no reducer is fit and no PCA file is written; with
\* apply_encoding off no encoder is fit, no encoder file is written and PCA
\* is not run on the un-encoded frame; in each case the run completes and
\* save_features writes the table.
C13_DisabledStageFreezes ==
    /\ (RunOverWithoutIoError /\ builder.df # NoFrame /\ ~flags.apply_pca) =>
            /\ pc = "saved"
            /\ ~builder.pca_model.present /\ ~disk.pca.present
            /\ disk.features.present
    /\ (RunOverWithoutIoError /\ builder.df # NoFrame /\ ~flags.apply_encoding) =>
            /\ pc = "saved"
            /\ ~builder.onehot_encoder.present /\ ~disk.encoder.present
            /\ ~builder.pca_model.present /\ ~disk.pca.present
            /\ disk.features.present

(***************************************************************************)
(* Purity of transform.                                                    *)
(***************************************************************************)
\* C14: for a loaded encoder and reducer, a second transform call on the
\* same input returns what the first returned, and the calls change neither
\* the caller's frame nor the pipeline (nominal_variables, ordinal_variables,
\* expected_onehot_names, encoder, PCA model).
C14_TransformIsPure ==
    /\ IsTransform =>
            /\ inf.caller_df = inf.input
            /\ pipeline = inf.self_before
    /\ (IsTransform /\ inf.again) => inf.out2 = inf.out

\* a second call was made on a row with ordinal columns to encode, and succeeded
C14_Witness ==
    /\ IsTransform /\ inf.again
    /\ inf.out.ok
    /\ pipeline.ordinal_variables = DeclaredOrdinal
    /\ ~HasCol(inf.input, target_variable)
    /\ \E c \in Range(inf.out.val.cols) : c = EncodedName("Class_X_Percentage")

(***************************************************************************)
(* Training, selection and registration.                                   *)
(***************************************************************************)
\* C16: the test predictions evaluate_and_log_model scores are rounded and
\* clipped, so every scored prediction lies in the label range 0..3.
C16_ScoredPredictionsClipped ==
    trainer.last_eval.called => trainer.last_eval.y_pred_class \in 0..3

\* C17: get_best_model returns a model whose metric value is maximal
\* (maximize) or minimal (otherwise) among the entries of model_metrics, the
\* first inserted among those tied for it; with no entries it raises
\* ValueError.
C17_BestModelFirstOfTheBest ==
    trainer.pc = "asked" =>
        LET mm == trainer.model_metrics
            metric == trainer.metric
            best == trainer.best
        IN  IF mm = <<>>
            THEN ~best.ok /\ best.err.type = "ValueError"
            ELSE /\ best.ok
                 /\ \E i \in DOMAIN mm :
                       /\ mm[i].name = best.val
                       /\ \A j \in DOMAIN mm :
                             IF trainer.maximize THEN mm[j][metric] <= mm[i][metric]
                             ELSE mm[j][metric] >= mm[i][metric]
                       /\ \A j \in 1..(i - 1) : mm[j][metric] # mm[i][metric]

\* three models, the second and the third tied for the lowest rmse
C17_Witness ==
    /\ trainer.pc = "asked"
    /\ ~trainer.maximize /\ trainer.metric = "rmse"
    /\ Len(trainer.model_metrics) = 3
    /\ trainer.model_metrics[2].rmse = trainer.model_metrics[3].rmse
    /\ trainer.model_metrics[1].rmse > trainer.model_metrics[2].rmse
    /\ trainer.best.ok /\ trainer.best.val = trainer.model_metrics[2].name

\* the serving process started after the training run ended
ServingStarted == predictor.onehot_encoder.present

\* C18: after a training run selected and registered the winner W, the model
\* load_artifacts loads is the version register_best_model published for W.
C18_ServingLoadsRegisteredWinner ==
    (/\ trainer.pc = "done"
     /\ trainer.model = "all"
     /\ trainer.experiment = ConfiguredExperiment
     /\ ServingStarted) =>
        /\ predictor.model.present
        /\ predictor.model.registry_name = trainer.registration.name
        /\ predictor.model.version = trainer.registration.version
        /\ predictor.model.run_name = trainer.best.val

\* C19: one training run (train the candidates, select the best, register
\* it) appends exactly one model version to the registry.
C19_OneVersionPerRun ==
    trainer.pc = "done" => Len(store.versions) = trainer.versions_at_start + 1

\* C20: register_best_model(name) publishes the model that the most recent
\* run named name logged, under experiment_name (spaces as '_') + '_' + name,
\* tagged stage = candidate-for-production; without the experiment or a run
\* of that name it raises ValueError and leaves the registry as it was.
C20_RegistersLoggedArtifact ==
    trainer.registration.called =>
        LET g == trainer.registration
            before == g.before
            runs == RunsNamed(before, ExperimentName(trainer.experiment), g.best_model_name)
            latest == runs[Len(runs)]
            new == store.versions[Len(store.versions)]
        IN  IF ExperimentName(trainer.experiment) \notin before.experiments \/ runs = <<>>
            THEN ~g.ok /\ g.err.type = "ValueError" /\ store = before
            ELSE /\ g.ok
                 /\ store = [before EXCEPT !.versions = Append(@, new)]
                 /\ new.name = RegisteredModelName(trainer.experiment, g.best_model_name)
                 /\ new.tags = {<<"stage", "candidate-for-production">>}
                 /\ new.run = latest
                 /\ new.path = before.runs[latest].artifact_path

(***************************************************************************)
(* Serving: predict.                                                       *)
(***************************************************************************)
\* C15: whatever the regressor returns, prediction_numeric is the output
\* rounded to a nearest integer and clipped into 0..3 (0 below the range, 3
\* above it), and prediction is prediction_mapping[prediction_numeric], one
\* of AVERAGE, GOOD, VG, EXCELLENT.
C15_PredictionRoundedAndClipped ==
    (resp.called /\ resp.answers) =>
        LET h == resp.y_pred
            n == resp.out.val.prediction_numeric
        IN  /\ resp.out.ok
            /\ n \in 0..3
            /\ \E r \in (0 - Overshoot - 1)..(3 + Overshoot + 1) :
                  /\ 2 * r - h \in {-1, 0, 1}
                  /\ n = (IF r < 0 THEN 0 ELSE IF r > 3 THEN 3 ELSE r)
            /\ h < 0 => n = 0
            /\ h > 6 => n = 3
            /\ resp.out.val.prediction = PredictionLabels[n + 1]
            /\ resp.out.val.prediction \in {"AVERAGE", "GOOD", "VG", "EXCELLENT"}

\* the regressor returned 4.0 and the response is EXCELLENT, 3
C15_Witness ==
    /\ resp.called /\ resp.answers
    /\ resp.y_pred = 8
    /\ resp.out.ok
    /\ resp.out.val = [prediction |-> "EXCELLENT", prediction_numeric |-> 3]

(***************************************************************************)
(* Serving: degraded startup.                                              *)
(***************************************************************************)
\* C21: when load_artifacts raised at startup the service is up all the
\* same, /health answers model_loaded = FALSE, every /predict ends in HTTP
\* 500 without the model being invoked, and the model is loaded only if
\* the encoder and the PCA model were loaded.
C21_DegradedStartup ==
    /\ predictor.model.present =>
          (predictor.onehot_encoder.present /\ predictor.pca_model.present)
    /\ (app.started /\ ~app.load.ok) =>
          /\ ~predictor.model.present
          /\ app.health.called => ~app.health.model_loaded
          /\ resp.called => (resp.status_code = "500" /\ ~resp.answers /\ ~resp.out.ok)

\* the PCA file is missing: the encoder is loaded, the model is not, /health
\* and /predict answered
C21_Witness ==
    /\ app.started /\ ~app.load.ok
    /\ app.load.err.type = "FileNotFoundError"
    /\ predictor.onehot_encoder.present
    /\ app.health.called /\ ~app.health.model_loaded
    /\ resp.called /\ resp.status_code = "500"

(***************************************************************************)
(* Inference: column order without reduction.                              *)
(***************************************************************************)
\* a successful transform without reduction
PlainTransform == IsTransform /\ inf.out.ok /\ ~inf.with_pca

\* the input columns that are neither nominal, ordinal nor the target
NonCategoryCols ==
    Without(inf.input.cols,
            Range(inf.self_before.nominal_variables)
                \cup Range(inf.self_before.ordinal_variables) \cup {target_variable})

\* {col}_encoded of the ordinal columns of the input, in declaration order
EncodedCols ==
    LET given == Within(inf.self_before.ordinal_variables, Range(inf.input.cols))
    IN  [i \in DOMAIN given |-> EncodedName(given[i])]

\* the output columns, the reattached target set apart
OutputFeatureCols == Without(inf.out.val.cols, {target_variable})

NoCategoryColumnLeft ==
    Range(inf.out.val.cols)
        \cap (Range(inf.self_before.nominal_variables)
                 \cup Range(inf.self_before.ordinal_variables)) = {}

\* C22: without reduction the output columns are the non-category columns,
\* then the one-hot columns in fit-time order, then the {col}_encoded
\* columns in declaration order, and no nominal or ordinal column remains.
C22_OnehotBeforeOrdinal ==
    PlainTransform =>
        /\ OutputFeatureCols =
              NonCategoryCols \o inf.self_before.expected_onehot_names \o EncodedCols
        /\ NoCategoryColumnLeft

\* C22 amended: without reduction the output columns are the non-category
\* columns unchanged, then the {col}_encoded columns of the ordinal columns
\* in declaration order, then the one-hot columns in fit-time order, then
\* the target if the input had it; no nominal or ordinal column remains.
C22_OrdinalBeforeOnehot ==
    PlainTransform =>
        /\ OutputFeatureCols =
              NonCategoryCols \o EncodedCols \o inf.self_before.expected_onehot_names
        /\ inf.out.val.cols =
              OutputFeatureCols \o (IF HasCol(inf.input, target_variable)
                                    THEN <<target_variable>> ELSE <<>>)
        /\ \A c \in Range(NonCategoryCols) :
              inf.out.val.rows[1][c] = inf.input.rows[1][c]
        /\ NoCategoryColumnLeft

\* both blocks are there, with a non-category column ahead and the target behind
C22_Witness ==
    /\ PlainTransform
    /\ Len(EncodedCols) = 2
    /\ Len(inf.self_before.expected_onehot_names) > 1
    /\ NonCategoryCols # <<>>
    /\ HasCol(inf.input, target_variable)

(***************************************************************************)
(* FeatureBuilder: the selection gates.                                    *)
(***************************************************************************)
\* out holds elements of declared only, each once, in the order of declared
InDeclarationOrder(out, declared) == out = Within(declared, Range(out))

\* C23: select_nominal_features returns exactly the declared nominal columns
\* present in the data with p_value < alpha and Cramer's V >= min_cramers_v,
\* select_ordinal_features exactly the declared ordinal columns present with
\* p_value < alpha and |correlation| >= min_correlation, each in declaration
\* order.
C23_SelectionGates ==
    /\ (call.called /\ call.op = "select_nominal_features") =>
          /\ InDeclarationOrder(call.out, DeclaredNominal)
          /\ \A c \in Range(DeclaredNominal) :
                c \in Range(call.out) <=>
                    /\ c \in Range(call.df.cols)
                    /\ call.stats[c].p_value < alpha
                    /\ call.stats[c].cramers_v >= min_cramers_v
    /\ (call.called /\ call.op = "select_ordinal_features") =>
          /\ InDeclarationOrder(call.out, DeclaredOrdinal)
          /\ \A c \in Range(DeclaredOrdinal) :
                c \in Range(call.out) <=>
                    /\ c \in Range(call.df.cols)
                    /\ ~call.stats[c].nan
                    /\ call.stats[c].p_value < alpha
                    /\ (call.stats[c].correlation >= min_correlation
                          \/ call.stats[c].correlation <= 0 - min_correlation)

\* a column on the threshold of the effect size is kept, one that passes the
\* gate but is absent from the table is not returned
C23_Witness ==
    /\ call.called /\ call.op = "select_nominal_features"
    /\ \E c \in Range(call.out) : call.stats[c].cramers_v = min_cramers_v
    /\ \E c \in Range(DeclaredNominal) \ Range(call.df.cols) :
          call.stats[c].p_value < alpha /\ call.stats[c].cramers_v >= min_cramers_v
    /\ Len(call.out) < Len(DeclaredNominal) - 1

(***************************************************************************)
(* FeatureBuilder: every nominal column rejected.                          *)
(***************************************************************************)
\* a run with the default arguments whose selection kept no nominal column
\* is over, no write of the save stage having raised
AllNominalRejected ==
    /\ flags = NoRunFlags
    /\ RunOverWithoutIoError
    /\ builder.df # NoFrame
    /\ builder.nominal_variables = <<>>

\* C24: when the selection rejects every nominal column the run still
\* completes with a non-empty table, no encoder is fit, and save_artifacts
\* writes no encoder file but does write the PCA file.
C24_AllRejectedStillCompletes ==
    AllNominalRejected =>
        /\ pc = "saved"
        /\ builder.df.rows # <<>>
        /\ ~builder.onehot_encoder.present
        /\ ~disk.encoder.present
        /\ builder.pca_model.present
        /\ disk.pca.present

(***************************************************************************)
(* FeatureBuilder.onehot_encode.                                           *)
(***************************************************************************)
IsOnehotEncode == call.called /\ call.op = "onehot_encode"

\* the requested features that are columns of the frame
RequestedPresent == Within(call.nominal_features, Range(call.df.cols))

\* the values column c takes in the frame
LevelsOf(c) == {call.df.rows[i][c].s : i \in DOMAIN call.df.rows}

\* C25: with none of the requested features a column of the frame,
\* onehot_encode returns the frame unchanged and fits no encoder; otherwise,
\* with drop_original, every encoded column is gone, every column added is
\* named {col}_{level} for an encoded column and one of its levels (at least
\* one for a column of two or more levels), the other columns and the
\* number of rows are unchanged.
C25_OnehotEncodeFrame ==
    /\ (IsOnehotEncode /\ RequestedPresent = <<>>) =>
          /\ call.out.df = call.df
          /\ ~call.out.onehot_encoder.present
    /\ (IsOnehotEncode /\ RequestedPresent # <<>> /\ call.drop_original) =>
          LET added == Range(call.out.df.cols) \ Range(call.df.cols)
          IN  /\ call.out.onehot_encoder.present
              /\ Range(RequestedPresent) \cap Range(call.out.df.cols) = {}
              /\ \A a \in added :
                    \E c \in Range(RequestedPresent) : \E l \in LevelsOf(c) :
                        a = c \o "_" \o l
              /\ \A c \in Range(RequestedPresent) :
                    Cardinality(LevelsOf(c)) > 1 =>
                        \E l \in LevelsOf(c) : (c \o "_" \o l) \in added
              /\ Without(call.out.df.cols, added) =
                    Without(call.df.cols, Range(RequestedPresent))
              /\ Len(call.out.df.rows) = Len(call.df.rows)

\* one requested column is absent, the other is encoded and dropped
C25_Witness ==
    /\ IsOnehotEncode /\ call.drop_original
    /\ call.nominal_features = <<"Gender", "Caste">>
    /\ RequestedPresent = <<"Caste">>
    /\ "Caste_L2" \in Range(call.out.df.cols)
    /\ ~HasCol(call.out.df, "Caste")
    /\ Len(call.out.df.rows) = NumLevels

(***************************************************************************)
(* The label tables of training, inference and serving.                    *)
(***************************************************************************)
\* C26: each of AVERAGE, GOOD, VG, EXCELLENT goes through the training
\* target mapping to a code in 0..3 and through the serving
\* prediction_mapping back to itself; prediction_mapping is the inverse of
\* target_mapping, and the ordinal mappings of training, inference and
\* serving, like the two target mappings, agree on the four levels.
C26_LabelRoundTrip ==
    /\ (call.called /\ call.op = "round_trip") =>
          \A i \in DOMAIN call.column :
              call.column[i].s \in {"AVERAGE", "GOOD", "VG", "EXCELLENT"} =>
                  /\ call.encoded[i] # NaN
                  /\ call.encoded[i].n \in 0..3
                  /\ call.decoded[i].ok
                  /\ call.decoded[i].val = call.column[i].s
    /\ \A k \in 0..3 :
          /\ prediction_mapping(k).ok
          /\ prediction_mapping(k).val \in DOMAIN BuilderTargetMapping
          /\ BuilderTargetMapping[prediction_mapping(k).val] = k
    /\ \A l \in {"AVERAGE", "GOOD", "VG", "EXCELLENT"} :
          /\ InferenceTargetMapping[l] = BuilderTargetMapping[l]
          /\ LevelCode(l) = BuilderTargetMapping[l]
          /\ \A c \in Range(DeclaredOrdinal) :
                /\ BuilderOrdinalMapping[c][l] = BuilderTargetMapping[l]
                /\ InferenceOrdinalMapping[c][l] = BuilderOrdinalMapping[c][l]
                /\ ServingOrdinalMapping[c][l] = BuilderOrdinalMapping[c][l]

\* a column with the four labels in it came back as it was
C26_Witness ==
    /\ call.called /\ call.op = "round_trip"
    /\ {call.column[i].s : i \in DOMAIN call.column} = {"VG", "EXCELLENT", "AVERAGE"}
    /\ \A i \in DOMAIN call.column :
          call.decoded[i].ok /\ call.decoded[i].val = call.column[i].s

(***************************************************************************)
(* run_training.main: which candidate is registered.                       *)
(***************************************************************************)
\* C27: the model main passes to register_best_model has the best value of
\* the configured metric among the trained candidates: the highest qwk when
\* the metric is qwk, the lowest rmse when it is rmse.
C27_RegistersBestByMetric ==
    (trainer.pc \in {"done", "register_failed"} /\ trainer.registration.called) =>
        \E b \in Range(trainer.model_metrics) :
            /\ b.name = trainer.registration.best_model_name
            /\ \A e \in Range(trainer.model_metrics) :
                  IF trainer.metric = "qwk" THEN e.qwk <= b.qwk ELSE e.rmse >= b.rmse

(***************************************************************************)
(* The pipeline steps: skip, force and what a normal return leaves.        *)
(***************************************************************************)
IsFit(step) == call.called /\ call.op = "fit" /\ call.step = step

\* the files as tagged, the invocation counter set apart
Tags(fs) == [fs EXCEPT !.runs = 0]

\* C28: whenever a FeatureBuildingStep.fit returns normally, the features
\* table, the encoder file and the PCA file all exist and were written by
\* one and the same FeatureBuilder run.
C28_ArtifactsOfOneRun ==
    (IsFit(FeatureStep) /\ call.ok) =>
        /\ fsys.features # 0
        /\ fsys.encoder = fsys.features
        /\ fsys.pca = fsys.features

\* this step's output file, before the call and now
OutputBefore == IF call.step = CleaningStep THEN call.before.cleaned ELSE call.before.features
OutputNow == IF call.step = CleaningStep THEN fsys.cleaned ELSE fsys.features

\* C30: with the output present and force false, fit runs no stage and
\* leaves every file as it was; with force true or the output absent it
\* runs the stage and, when it returns normally, the output file exists,
\* written by this run; fit returns the step and transform its output_path.
C30_SkipForceGating ==
    (call.called /\ call.op = "fit") =>
        /\ (OutputBefore # 0 /\ ~call.force) =>
              /\ ~call.ran /\ call.ok
              /\ Tags(fsys) = Tags(call.before)
              /\ disk = call.disk_before
        /\ (OutputBefore = 0 \/ call.force) =>
              /\ call.ran
              /\ call.ok => (OutputNow = fsys.runs /\ OutputNow # 0)
        /\ call.ok => call.returned = call.step
        /\ call.transform = call.step.output_path

\* a forced run rewrote the table of an earlier run, and a later call
\* without force skipped over it
C30_Witness ==
    /\ IsFit(FeatureStep) /\ ~call.force /\ ~call.ran /\ call.ok
    /\ fsys.features = 2 /\ fsys.cleaned = 1 /\ fsys.runs = 3
    /\ fsys.encoder = 2 /\ disk.features.present

(***************************************************************************)
(* run_training.main as a whole.                                           *)
(***************************************************************************)
\* the order of the stages, as it shows in every state of a run of main
MainInOrder ==
    /\ main.pc # "raised"
    /\ main.features # "none" => main.cleaning = "ok"
    /\ trainer.pc # "idle" => (main.cleaning = "ok" /\ main.features = "ok")
    /\ trainer.registration.called =>
          (trainer.best.ok /\ trainer.todo = <<>> /\ trainer.model_metrics # <<>>)
    /\ trainer.pc = "failed" => ~trainer.registration.called

\* a stage that raised, or a main that returned
MainOver ==
    \/ "raised" \in {main.cleaning, main.features}
    \/ trainer.pc \in {"failed", "register_failed"}
    \/ main.pc = "returned"

\* no stage runs a second time, and nothing runs once main is over
MainNoRetry ==
    /\ main.cleaning # "none" => main'.cleaning = main.cleaning
    /\ main.features # "none" => main'.features = main.features
    /\ trainer.pc # "idle" => trainer'.pc # "idle"
    /\ trainer.registration.called => trainer'.registration = trainer.registration
    /\ MainOver => UNCHANGED <<disk, fsys, store, trainer>>

\* C29: main lets no exception of a stage out and runs the stages in order:
\* the feature step only after a cleaning step that did not raise, the
\* training only after both, the registration only after the training and
\* the selection succeeded; no stage runs twice, and once a stage raised
\* nothing further runs: no file, no run and no registry entry is added.
C29_MainStagesInOrder == []MainInOrder /\ [][MainNoRetry]_vars

\* both steps ran, a model was trained and selected, the registration
\* raised, and main returned
C29_Witness ==
    /\ main.pc = "returned"
    /\ main.cleaning = "ok" /\ main.features = "ok"
    /\ fsys.pca = fsys.runs /\ fsys.cleaned # 0
    /\ trainer.pc = "register_failed"
    /\ trainer.registration.called /\ ~trainer.registration.ok
====
